---- MODULE Spec2Model ----
(***************************************************************************)
(* Verification model of the Sudoku tunnel worker:                         *)
(*   - the Sudoku codec (tables, mask, unmask)     main_20260220143838.go  *)
(*   - the AEAD engine and the nonce counter       main_...go, crypto_*.go *)
(*   - the poll session manager                    poll-session.ts,        *)
(*                                                 poll-handler.ts         *)
(* Bytes are integers 0..255; 32-bit words are pairs <<hi16, lo16>> so     *)
(* that the arithmetic of the source wraps exactly as uint32 does.         *)
(***************************************************************************)
EXTENDS Integers, Sequences, FiniteSets, TLC

VARIABLES
    \* ---- codec session (SudokuInstance.sudokuState) and the last calls
    rngState,       \* state[16:20], the 32-bit LCG state of the session
    codecKey,       \* SudokuInstance.key of the codec session
    maskIn,         \* bytes handed to the last mask call
    maskOut,        \* arena[outBufBase .. +currentOutLen] after mask
    unmaskOut,      \* arena[outBufBase .. +currentOutLen] after unmask
    codecPc,        \* "idle" | "masked" | "unmasked" | "reassembled" | "framed"
    maskCalls,      \* number of mask calls made on the session
    encFrame,       \* the frame the last SudokuAEAD.encrypt call returned
    \* ---- package-level tables filled by init() -> initCodecTablesWithKey
    encodeTable,    \* encodeTable[b][0 .. encodeTableCount[b])
    decodeTable,    \* decodeTableKeys / decodeTableVals on the occupied slots
    paddingPool,    \* paddingPool[0 .. paddingPoolSize)
    \* ---- AEAD session (SudokuInstance key, cipherType, nonceCounter)
    aeadKey,        \* session.key
    cipherType,     \* session.cipherType
    nonceCounter,   \* session.nonceCounter, as 8 big-endian bytes
    sealIn,         \* plaintext of the last aeadEncrypt call
    sealOut,        \* bytes the last aeadEncrypt call returned
    sealFrom,       \* nonceCounter when the last aeadEncrypt call began
    nonceLog,       \* runs [from, to] of counter values sealed under, in order
    sealCount,      \* number of single aeadEncrypt calls made
    decRet,         \* return value of the last aeadDecrypt call
    decOut,         \* the decRet bytes at outPtr after aeadDecrypt
    aeadPc,         \* "idle" | "sealed" | "refused" | "ran" | "decrypted"
    \* ---- one chacha20poly1305Seal / chacha20poly1305Open experiment
    openKey,        \* key
    openNonce,      \* nonce
    openPlain,      \* plaintext handed to Seal
    openSealed,     \* ciphertext and tag Seal produced
    openIn,         \* ciphertextAndTag handed to Open
    openRet,        \* return value of Open
    openOut,        \* out after Open
    openPc,         \* "init" | "sealed" | "opened"
    \* ---- poll session manager (poll-session.ts) and its handlers
    sessions,       \* keys of the registry Map `sessions`
    issued,         \* tokens generateSessionId has returned so far
    session,        \* the Session objects, by token (they outlive the registry entry)
    stream,         \* the handleStream call in flight: position, locals, response
    timers,         \* pending setTimeout(done, timeoutMs) timers of waitForData
    invoked,        \* invoked[w]: how often the `done` of the w-th waitForData ran
    now,            \* Date.now(), in ms
    produced,       \* frames handleUpstreamRead handed to notifyData
    delivered,      \* frames written to stream responses, in order
    upstreamOut,    \* plaintexts handed to upstreamWriter.write, in order
    upload,         \* the handleUpload calls in flight: position and token
    uploaded,       \* unmasked bytes appended to pushUnmasked so far, in order
    status,         \* HTTP status of the last response
    closedTokens,   \* tokens for which handleClose closed a session
    failedTokens,   \* tokens whose upload held a frame that failed decryption
    \* ---- one WebSocket tunnel (handleWebSocket of src/index.ts)
    wsConn,         \* the server WebSocket: readyState, close code and reason
    wsFed,          \* bytes of the client's frame stream received in messages so far
    wsWritten,      \* plaintexts handed to upstreamWriter.write, in order
    wsFrames,       \* frames AeadManager.encrypt returned: prefix and payload length
    \* ---- a second handleStream call in flight on the same poll session
    stream2,        \* position, locals and response, as in `stream`
    \* ---- the WASM instance behind the poll handlers: arena and session slots
    arenaPtr,       \* the bump pointer of malloc
    sessionUsed,    \* ids i with sessionUsed[i] = 1
    aeadOf,         \* the SudokuAEAD of each poll session: sessionId and cipher
    fate,           \* per chunk read from upstream: "enqueued" or "dropped"
    mallocNull,     \* whether a malloc call for a positive size has returned 0
    \* ---- one packHintsToKey experiment
    packHints,      \* the four hint bytes of a quadruple, in table order
    packKey,        \* packHintsToKey of the quadruple as mask emitted it
    packPc,         \* "idle" | "packed"
    \* ---- chacha20GenerateKey on its own
    kgCipher,       \* the chacha20Cipher (key, counter, nonce words)
    savedCounter,   \* the counter the cipher held when chacha20GenerateKey was called
    kgOut,          \* out, the 32 bytes chacha20GenerateKey wrote
    kgPc,           \* idle / derived
    \* ---- poly1305Finalize on its own
    finH,           \* state.h, three uint64 words
    finS,           \* state.s, two uint64 words
    finTag,         \* out, the 16 tag bytes
    finPc,          \* idle / finalized
    \* ---- later calls of initCodecTablesWithKey
    tblInits,       \* calls of initCodecTablesWithKey made after init()
    tblKey,         \* the key of the last call
    \* ---- init() filling the decode table, all 256 byte values
    fillByte,       \* byteVal of the loop in initCodecTablesWithKey
    fillUsed,       \* number of slots with decodeTableKeys[slot] # 0
    fillPc,         \* init / done / spinning (decodeTableInsert never returns)
    \* ---- mask on a frame of any size, by lengths
    mlIn,           \* inLen of the mask call
    mlPads,         \* padding bytes the RNG asks for before the last hint
    mlOut,          \* currentOutLen after the call
    mlPc,           \* idle / masked
    \* ---- requests with or without a valid authenticator
    reqValid,       \* isValid, what auth.verify returns for the last request
    reqCount,       \* requests made
    \* ---- TunnelAuth objects and their verify calls
    tkImpl,         \* the auth module deployed: src/auth.ts or part_008
    tkReq,          \* per request: position of verify, this.key, the digest, the key bytes given to importKey
    \* ---- the message handlers of one WebSocket tunnel, by message number
    ordCipher,      \* AeadManager.cipherType of the tunnel
    ordArrived,     \* message events dispatched so far
    ordPending,     \* messages whose handler waits in crypto.subtle.decrypt
    ordWritten      \* messages in the order of their upstreamWriter.write calls

tableVars == <<encodeTable, decodeTable, paddingPool>>

codecVars == <<rngState, codecKey, maskIn, maskOut, unmaskOut, codecPc, maskCalls, encFrame>>

aeadVars == <<aeadKey, cipherType, nonceCounter, sealIn, sealOut, sealFrom,
              nonceLog, sealCount, decRet, decOut, aeadPc>>

openVars == <<openKey, openNonce, openPlain, openSealed, openIn, openRet, openOut, openPc>>

pollVars == <<sessions, issued, session, stream, timers, invoked, now, produced,
              delivered, upstreamOut, upload, uploaded, status, closedTokens,
              failedTokens>>

wsVars == <<wsConn, wsFed, wsWritten, wsFrames>>

wasmVars == <<arenaPtr, sessionUsed, aeadOf, fate, mallocNull>>

packVars == <<packHints, packKey, packPc>>

keyVars == <<kgCipher, savedCounter, kgOut, kgPc>>

finVars == <<finH, finS, finTag, finPc>>

reinitVars == <<tblInits, tblKey>>

fillVars == <<fillByte, fillUsed, fillPc>>

lenVars == <<mlIn, mlPads, mlOut, mlPc>>

reqVars == <<reqValid, reqCount>>

tkVars == <<tkImpl, tkReq>>

ordVars == <<ordCipher, ordArrived, ordPending, ordWritten>>

vars == <<codecVars, tableVars, aeadVars, openVars, pollVars, wsVars, stream2, wasmVars, packVars, keyVars, finVars, reinitVars, fillVars, lenVars, reqVars, tkVars, ordVars>>

\* what the operations of one component leave alone
notCodecVars == <<aeadVars, openVars, pollVars, wsVars, stream2, wasmVars, packVars, keyVars, finVars, reinitVars, fillVars, lenVars, reqVars, tkVars, ordVars>>
notTableVars == <<codecVars, aeadVars, openVars, pollVars, wsVars, stream2, wasmVars, packVars, keyVars, finVars, fillVars, lenVars, reqVars, tkVars, ordVars>>
notAeadVars == <<codecVars, tableVars, openVars, pollVars, wsVars, stream2, wasmVars, packVars, keyVars, finVars, reinitVars, fillVars, lenVars, reqVars, tkVars, ordVars>>
notOpenVars == <<codecVars, tableVars, aeadVars, pollVars, wsVars, stream2, wasmVars, packVars, keyVars, finVars, reinitVars, fillVars, lenVars, reqVars, tkVars, ordVars>>
notPollVars == <<codecVars, tableVars, aeadVars, openVars, wsVars, stream2, wasmVars, packVars, keyVars, finVars, reinitVars, fillVars, lenVars, reqVars, tkVars, ordVars>>
notAuthVars == <<codecVars, tableVars, aeadVars, openVars, wsVars, stream2, wasmVars, packVars, keyVars, finVars, reinitVars, fillVars, lenVars, tkVars, ordVars>>
notWsVars == <<codecVars, tableVars, aeadVars, openVars, pollVars, stream2, wasmVars, packVars, keyVars, finVars, reinitVars, fillVars, lenVars, reqVars, tkVars, ordVars>>
notStreamVars == <<codecVars, tableVars, aeadVars, openVars, wsVars, wasmVars, packVars, keyVars, finVars, reinitVars, fillVars, lenVars, reqVars, tkVars, ordVars>>
notWasmVars == <<codecVars, tableVars, aeadVars, openVars, wsVars, stream2, packVars, keyVars, finVars, reinitVars, fillVars, lenVars, reqVars, tkVars, ordVars>>
notPackVars == <<codecVars, tableVars, aeadVars, openVars, pollVars, wsVars, stream2, wasmVars, keyVars, finVars, reinitVars, fillVars, lenVars, reqVars, tkVars, ordVars>>
notKeyVars == <<codecVars, tableVars, aeadVars, openVars, pollVars, wsVars, stream2, wasmVars, packVars, finVars, reinitVars, fillVars, lenVars, reqVars, tkVars, ordVars>>
notFinVars == <<codecVars, tableVars, aeadVars, openVars, pollVars, wsVars, stream2, wasmVars, packVars, keyVars, reinitVars, fillVars, lenVars, reqVars, tkVars, ordVars>>
notReinitVars == <<codecVars, tableVars, aeadVars, openVars, pollVars, wsVars, stream2, wasmVars, packVars, keyVars, finVars, fillVars, lenVars, reqVars, tkVars, ordVars>>
notFillVars == <<codecVars, tableVars, aeadVars, openVars, pollVars, wsVars, stream2, wasmVars, packVars, keyVars, finVars, reinitVars, lenVars, reqVars, tkVars, ordVars>>
notLenVars == <<codecVars, tableVars, aeadVars, openVars, pollVars, wsVars, stream2, wasmVars, packVars, keyVars, finVars, reinitVars, fillVars, reqVars, tkVars, ordVars>>
notReqVars == <<codecVars, tableVars, aeadVars, openVars, pollVars, wsVars, stream2, wasmVars, packVars, keyVars, finVars, reinitVars, fillVars, lenVars, tkVars, ordVars>>
notTkVars == <<codecVars, tableVars, aeadVars, openVars, pollVars, wsVars, stream2, wasmVars, packVars, keyVars, finVars, reinitVars, fillVars, lenVars, reqVars, ordVars>>
notOrdVars == <<codecVars, tableVars, aeadVars, openVars, pollVars, wsVars, stream2, wasmVars, packVars, keyVars, finVars, reinitVars, fillVars, lenVars, reqVars, tkVars>>

(***************************************************************************)
(* Bounds of the model                                                     *)
(***************************************************************************)
NumByteVals == 2        \* byte values 0..NumByteVals-1 get encode-table rows
MaxMaskLen == 2         \* longest input handed to mask
MaxMaskCalls == 2       \* mask calls per session
MaxPlainLen == 1        \* longest short plaintext handed to aeadEncrypt
MaxSeals == 4           \* single aeadEncrypt calls per session

ByteVals == 0 .. (NumByteVals - 1)

(***************************************************************************)
(* Bit operations on bytes and 16-bit words                                 *)
(***************************************************************************)
\* the bit of weight p of a & b, a ^ b, a | b, for a, b below 2^16
AndBit(a, b, p) == ((a \div p) % 2) * ((b \div p) % 2) * p
XorBit(a, b, p) == (((a \div p) + (b \div p)) % 2) * p
OrBit(a, b, p) == (IF ((a \div p) % 2) + ((b \div p) % 2) > 0 THEN 1 ELSE 0) * p

BitAnd(a, b) ==
    (((AndBit(a, b, 1) + AndBit(a, b, 2)) + (AndBit(a, b, 4) + AndBit(a, b, 8)))
     + ((AndBit(a, b, 16) + AndBit(a, b, 32)) + (AndBit(a, b, 64) + AndBit(a, b, 128))))
    + (((AndBit(a, b, 256) + AndBit(a, b, 512)) + (AndBit(a, b, 1024) + AndBit(a, b, 2048)))
       + ((AndBit(a, b, 4096) + AndBit(a, b, 8192)) + (AndBit(a, b, 16384) + AndBit(a, b, 32768))))

BitXor(a, b) ==
    (((XorBit(a, b, 1) + XorBit(a, b, 2)) + (XorBit(a, b, 4) + XorBit(a, b, 8)))
     + ((XorBit(a, b, 16) + XorBit(a, b, 32)) + (XorBit(a, b, 64) + XorBit(a, b, 128))))
    + (((XorBit(a, b, 256) + XorBit(a, b, 512)) + (XorBit(a, b, 1024) + XorBit(a, b, 2048)))
       + ((XorBit(a, b, 4096) + XorBit(a, b, 8192)) + (XorBit(a, b, 16384) + XorBit(a, b, 32768))))

BitOr(a, b) ==
    (((OrBit(a, b, 1) + OrBit(a, b, 2)) + (OrBit(a, b, 4) + OrBit(a, b, 8)))
     + ((OrBit(a, b, 16) + OrBit(a, b, 32)) + (OrBit(a, b, 64) + OrBit(a, b, 128))))
    + (((OrBit(a, b, 256) + OrBit(a, b, 512)) + (OrBit(a, b, 1024) + OrBit(a, b, 2048)))
       + ((OrBit(a, b, 4096) + OrBit(a, b, 8192)) + (OrBit(a, b, 16384) + OrBit(a, b, 32768))))

Min(a, b) == IF a < b THEN a ELSE b

\* F(lo) \o ... \o F(hi), by halves
RECURSIVE ConcatRange(_, _, _)
ConcatRange(F(_), lo, hi) ==
    IF lo > hi THEN <<>>
    ELSE IF lo = hi THEN F(lo)
    ELSE ConcatRange(F, lo, (lo + hi) \div 2) \o ConcatRange(F, ((lo + hi) \div 2) + 1, hi)

(***************************************************************************)
(* Constants of main_20260220143838.go                                     *)
(***************************************************************************)
maxSessions == 1024
outBufSize == 131072
numGrids == 288
numHintPositions == 1820
maxHintsPerByte == 50
decodeTableSize == 8192

CipherNone == 0
CipherAES128GCM == 1
CipherChaCha20Poly == 2

perm4 ==
    << <<0, 1, 2, 3>>, <<0, 1, 3, 2>>, <<0, 2, 1, 3>>, <<0, 2, 3, 1>>,
       <<0, 3, 1, 2>>, <<0, 3, 2, 1>>, <<1, 0, 2, 3>>, <<1, 0, 3, 2>>,
       <<1, 2, 0, 3>>, <<1, 2, 3, 0>>, <<1, 3, 0, 2>>, <<1, 3, 2, 0>>,
       <<2, 0, 1, 3>>, <<2, 0, 3, 1>>, <<2, 1, 0, 3>>, <<2, 1, 3, 0>>,
       <<2, 3, 0, 1>>, <<2, 3, 1, 0>>, <<3, 0, 1, 2>>, <<3, 0, 2, 1>>,
       <<3, 1, 0, 2>>, <<3, 1, 2, 0>>, <<3, 2, 0, 1>>, <<3, 2, 1, 0>> >>

(***************************************************************************)
(* The 32-bit LCG  rngState = rngState*1664525 + 1013904223  (mod 2^32)    *)
(* on words <<hi, lo>>:  1664525 = 25*2^16 + 26125,                        *)
(*                       1013904223 = 15470*2^16 + 62303.                  *)
(***************************************************************************)
rngNext(s) ==
    LET lowProd == s[2] * 26125 + 62303
        hiSum == s[1] * 26125 + s[2] * 25 + (lowProd \div 65536) + 15470
    IN  <<hiSum % 65536, lowProd % 65536>>

\* uint32 % n for a small modulus n
WordMod(s, n) == (((s[1] % n) * (65536 % n)) + s[2]) % n

\* seed = big-endian key[0..8), 0 replaced by "sudoku"; uint32(seed ^ seed>>32)
SeedOf(key) ==
    LET n == Min(8, Len(key))
        \* the n key bytes are the low n bytes of the 64-bit seed
        s(i) == IF i > 8 - n THEN key[i - (8 - n)] ELSE 0
        zero == \A i \in 1 .. 8 : s(i) = 0
    IN  IF zero
        THEN <<25711, 6144>>      \* 0x646F6B75 ^ 0x00007375 = 0x646F1800
        ELSE <<BitXor(s(5), s(1)) * 256 + BitXor(s(6), s(2)),
               BitXor(s(7), s(3)) * 256 + BitXor(s(8), s(4))>>

(***************************************************************************)
(* initGrids: the 288 grids in backtracking order                          *)
(***************************************************************************)
GridValid(g, idx, num) ==
    LET row == idx \div 4
        col == idx % 4
        br == (row \div 2) * 2
        bc == (col \div 2) * 2
        cell(p) == IF p < Len(g) THEN g[p + 1] ELSE 0
    IN  /\ \A i \in 0 .. 3 : cell(row * 4 + i) # num /\ cell(i * 4 + col) # num
        /\ \A r \in 0 .. 1 : \A c \in 0 .. 1 : cell((br + r) * 4 + (bc + c)) # num

RECURSIVE backtrack(_, _)
backtrack(g, idx) ==
    IF idx = 16 THEN <<g>>
    ELSE LET try(num) == IF GridValid(g, idx, num)
                         THEN backtrack(Append(g, num), idx + 1)
                         ELSE <<>>
         IN  try(1) \o try(2) \o try(3) \o try(4)

allGridsData == backtrack(<<>>, 0)

(***************************************************************************)
(* initHintPositions: the C(16,4) combinations in the loops' order         *)
(***************************************************************************)
hintPositionsData ==
    LET D(a, b, c) == [i \in 1 .. (15 - c) |-> <<a, b, c, c + i>>]
        C(a, b)  == LET F(c) == D(a, b, c) IN ConcatRange(F, b + 1, 14)
        B(a)     == LET F(b) == C(a, b) IN ConcatRange(F, a + 1, 13)
    IN  ConcatRange(B, 0, 12)

(***************************************************************************)
(* initCodecTablesWithKey, for the byte values 0..NumByteVals-1            *)
(***************************************************************************)
\* Fisher-Yates shuffle of 0..287 driven by the LCG
\* (index i of the source is position i+1): one step "for i := 287; i > 0"
ShuffleStep(st, i) ==
    LET r == rngNext(st.rng)
        j == WordMod(r, i + 1)
    IN  [rng |-> r,
         order |-> [st.order EXCEPT ![i + 1] = st.order[j + 1],
                                    ![j + 1] = st.order[i + 1]]]

\* the steps i = hi, hi-1, .., lo in that order (split in halves to keep
\* the evaluation shallow)
RECURSIVE ShuffleRange(_, _, _)
ShuffleRange(st, hi, lo) ==
    IF hi < lo THEN st
    ELSE IF hi = lo THEN ShuffleStep(st, hi)
    ELSE LET mid == (hi + lo + 1) \div 2
             first == ShuffleRange(st, hi, mid)
         IN  \* the test makes the first half be evaluated before the second
             IF first.rng[1] >= 0 THEN ShuffleRange(first, mid - 1, lo) ELSE first

gridOrderOf(key) ==
    ShuffleRange([rng |-> SeedOf(key),
                  order |-> <<>> \o [i \in 1 .. numGrids |-> i - 1]],
                 numGrids - 1, 1).order

\* the tables of the running instance are built by init() with key (0, 0)
gridOrder == gridOrderOf(<<>>)

\* the grids g with allGridsData[g][pos] = val, by position and value
GridsAt ==
    [pos \in 0 .. 15 |-> [val \in 1 .. 4 |->
        {g \in 1 .. numGrids : allGridsData[g][pos + 1] = val}]]

\* hasUniqueMatch: exactly one grid carries the four (val, pos) parts
hasUniqueMatch(parts) ==
    Cardinality(GridsAt[parts[1].pos][parts[1].val] \cap GridsAt[parts[2].pos][parts[2].val]
                \cap GridsAt[parts[3].pos][parts[3].val]
                \cap GridsAt[parts[4].pos][parts[4].val]) = 1

encodeHintASCII(val, pos) ==
    LET b == 64 + ((val % 4) * 16) + (pos % 16)
    IN  IF b = 127 THEN 10 ELSE b

\* the (val, pos) parts of the target grid at a position combination
PartsOf(targetGrid, positions) ==
    [i \in 1 .. 4 |-> [val |-> allGridsData[targetGrid + 1][positions[i] + 1],
                       pos |-> positions[i]]]

HintsOf(parts) == [i \in 1 .. 4 |-> encodeHintASCII(parts[i].val - 1, parts[i].pos)]

\* encodeTable[byteVal][0..count): the first maxHintsPerByte accepted
\* combinations in the order of hintPositionsData
encodeRowFor(order, byteVal) ==
    LET targetGrid == order[byteVal + 1]
        accepted == SelectSeq(hintPositionsData,
                              LAMBDA positions : hasUniqueMatch(PartsOf(targetGrid, positions)))
        count == Min(Len(accepted), maxHintsPerByte)
    IN  [k \in 1 .. count |-> HintsOf(PartsOf(targetGrid, accepted[k]))]

encodeRow(byteVal) == encodeRowFor(gridOrder, byteVal)

\* bytes without a row have encodeTableCount 0
encodeTableCount(b) == IF b \in DOMAIN encodeTable THEN Len(encodeTable[b]) ELSE 0

\* packHintsToKey: five-comparator sorting network, then big-endian pack
CompareKeep(h, i, j) == h
CompareSwap(h, i, j) == IF h[i] > h[j] THEN [h EXCEPT ![i] = h[j], ![j] = h[i]] ELSE h

packHintsToKey(hints) ==
    LET h1 == CompareSwap(hints, 1, 2)
        h2 == CompareSwap(h1, 3, 4)
        h3 == CompareSwap(h2, 1, 3)
        h4 == CompareSwap(h3, 2, 4)
        h5 == CompareSwap(h4, 2, 3)
    IN  h5[1] * 16777216 + h5[2] * 65536 + h5[3] * 256 + h5[4]

\* The decode table is kept as the function slot |-> <<key, val>> on the
\* occupied slots (decodeTableKeys[slot] # 0).
RECURSIVE ProbeFree(_, _, _)
ProbeFree(tbl, hash, n) ==
    IF n = 0 THEN hash              \* table full: the source spins forever
    ELSE IF hash \notin DOMAIN tbl THEN hash
    ELSE ProbeFree(tbl, (hash + 1) % decodeTableSize, n - 1)

decodeTableInsert(tbl, key, val) ==
    LET slot == ProbeFree(tbl, key % decodeTableSize, decodeTableSize)
    IN  (slot :> <<key, val>>) @@ tbl

RECURSIVE decodeTableLookupFrom(_, _, _, _)
decodeTableLookupFrom(tbl, key, hash, n) ==
    IF n = 0 THEN [val |-> 0, found |-> FALSE]
    ELSE IF hash \notin DOMAIN tbl THEN [val |-> 0, found |-> FALSE]
    ELSE IF tbl[hash][1] = key THEN [val |-> tbl[hash][2], found |-> TRUE]
    ELSE decodeTableLookupFrom(tbl, key, (hash + 1) % decodeTableSize, n - 1)

decodeTableLookup(tbl, key) ==
    decodeTableLookupFrom(tbl, key, key % decodeTableSize, decodeTableSize)

\* the inserts of initCodecTablesWithKey in program order
RECURSIVE InsertRow(_, _, _, _)
InsertRow(tbl, row, k, byteVal) ==
    IF k > Len(row) THEN tbl
    ELSE LET next == decodeTableInsert(tbl, packHintsToKey(row[k]), byteVal)
         IN  \* the table after an insert is computed before the next insert
             IF DOMAIN next # {} THEN InsertRow(next, row, k + 1, byteVal) ELSE next

RECURSIVE InsertBytes(_, _, _)
InsertBytes(tbl, enc, byteVal) ==
    IF byteVal >= NumByteVals THEN tbl
    ELSE InsertBytes(InsertRow(tbl, enc[byteVal], 1, byteVal), enc, byteVal + 1)

\* initCodecTablesWithKey: the three tables it leaves behind
initCodecTablesWithKey ==
    /\ encodeTable = [b \in ByteVals |-> encodeRow(b)]
    /\ decodeTable = InsertBytes(<<>>, encodeTable, 0)
    \* padding pool: the bytes 0x20+i, i < 32, with bit 0x40 clear
    /\ paddingPool = SelectSeq([i \in 1 .. 32 |-> 32 + (i - 1)],
                               LAMBDA b : BitAnd(b, 64) # 64)

paddingPoolSize == Len(paddingPool)

(***************************************************************************)
(* initSudokuState, mask, unmask                                           *)
(***************************************************************************)
\* state[14:16] = uint16(0.3 * 65536); mask compares with it shifted by 16,
\* i.e. rngState < threshold<<16  iff  the high half is below the threshold
paddingThreshold == 19660

padMarker == 63

isHintASCII(b) == BitAnd(b, 64) = 64 \/ b = 10 \/ b = 127

decodeGroupASCII(b) ==
    IF b = 10 \/ b = 127 THEN [group |-> 63, ok |-> TRUE]
    ELSE IF BitAnd(b, 64) = 0 THEN [group |-> 0, ok |-> FALSE]
    ELSE [group |-> BitAnd(b, 63), ok |-> TRUE]

\* arena[out+outPos] = b; outPos++   guarded by outPos < maxOut
Emit(out, b, maxOut) == IF Len(out) < maxOut THEN Append(out, b) ELSE out

\* the optional padding byte in front of a hint and at the tail
MaybePad(st, maxOut) ==
    IF st.rng[1] < paddingThreshold
    THEN LET r == rngNext(st.rng)
         IN  [rng |-> r,
              out |-> Emit(st.out, paddingPool[WordMod(r, paddingPoolSize) + 1], maxOut)]
    ELSE st

\* the loop "for j := 0; j < 4; j++" of mask
RECURSIVE MaskHints(_, _, _, _, _)
MaskHints(st, hints, perm, j, maxOut) ==
    IF j >= 4 THEN st
    ELSE LET p == MaybePad(st, maxOut)
             r == rngNext(p.rng)
         IN  MaskHints([rng |-> r, out |-> Emit(p.out, hints[perm[j + 1] + 1], maxOut)],
                       hints, perm, j + 1, maxOut)

\* one iteration of the loop over the input bytes
MaskByte(st, b, maxOut) ==
    LET p == MaybePad(st, maxOut)
        r1 == rngNext(p.rng)
        count == encodeTableCount(b)
    IN  IF count = 0
        THEN [rng |-> r1, out |-> Emit(p.out, b, maxOut)]
        ELSE LET hintIdx == WordMod(r1, count)
                 r2 == rngNext(r1)
                 permIdx == WordMod(r2, 24)
                 r3 == rngNext(r2)
             IN  MaskHints([rng |-> r3, out |-> p.out],
                           encodeTable[b][hintIdx + 1], perm4[permIdx + 1], 0, maxOut)

\* (the state after a byte is computed before the next iteration begins)
RECURSIVE MaskLoop(_, _, _, _)
MaskLoop(st, in, i, maxOut) ==
    IF i > Len(in) THEN st
    ELSE LET after == MaskByte(st, in[i], maxOut)
         IN  IF Len(after.out) >= 0
             THEN MaskLoop(after, in, i + 1, maxOut)
             ELSE after

\* mask: returns the output bytes and the RNG state saved in the session
mask(rng, in) ==
    IF Len(in) = 0 THEN [rng |-> rng, out |-> <<>>]
    ELSE LET maxOut == Min(Len(in) * 6 + 32, outBufSize)
         IN  MaybePad(MaskLoop([rng |-> rng, out |-> <<>>], in, 1, maxOut), maxOut)

\* unmask: hintBuf and hintCount are locals of the call
RECURSIVE UnmaskLoop(_, _, _, _)
UnmaskLoop(in, i, hintBuf, out) ==
    IF i > Len(in) \/ Len(out) >= outBufSize - 4 THEN out
    ELSE LET b == in[i]
         IN  IF ~isHintASCII(b) THEN UnmaskLoop(in, i + 1, hintBuf, out)
             ELSE IF ~decodeGroupASCII(b).ok THEN UnmaskLoop(in, i + 1, hintBuf, out)
             ELSE IF BitAnd(b, 48) = 0 THEN UnmaskLoop(in, i + 1, hintBuf, out)
             ELSE IF Len(hintBuf) < 3 THEN UnmaskLoop(in, i + 1, Append(hintBuf, b), out)
             ELSE LET r == decodeTableLookup(decodeTable, packHintsToKey(Append(hintBuf, b)))
                  IN  UnmaskLoop(in, i + 1, <<>>,
                                 IF r.found THEN Append(out, r.val) ELSE out)

unmask(in) == IF Len(in) = 0 THEN <<>> ELSE UnmaskLoop(in, 1, <<>>, <<>>)

(***************************************************************************)
(* The codec session: initSession, then mask and unmask calls              *)
(***************************************************************************)
\* the first eight key bytes of the sessions explored (the rest is zero)
CodecKeys ==
    { <<0, 0, 0, 0, 0, 0, 0, 0>>,
      <<1, 2, 3, 4, 5, 6, 7, 8>>,
      <<115, 117, 100, 111, 107, 117, 33, 33>>,
      <<255, 0, 255, 0, 1, 2, 3, 4>> }

RECURSIVE SeqsUpTo(_, _)
SeqsUpTo(S, n) ==
    IF n = 0 THEN {<<>>}
    ELSE LET shorter == SeqsUpTo(S, n - 1)
         IN  shorter \cup {Append(s, x) : s \in shorter, x \in S}

MaskInputs == SeqsUpTo(ByteVals, MaxMaskLen)

CodecInit ==
    /\ initCodecTablesWithKey
    /\ codecKey \in CodecKeys
    /\ rngState = SeedOf(codecKey)
    /\ maskIn = <<>>
    /\ maskOut = <<>>
    /\ unmaskOut = <<>>
    /\ codecPc = "idle"
    /\ maskCalls = 0
    /\ encFrame = <<>>

\* a call of the export mask(id, inPtr, inLen) on the session
MaskCall(in) ==
    /\ maskCalls < MaxMaskCalls
    /\ LET r == mask(rngState, in)
       IN  /\ rngState' = r.rng
           /\ maskOut' = r.out
    /\ maskIn' = in
    /\ maskCalls' = maskCalls + 1
    /\ codecPc' = "masked"
    /\ UNCHANGED <<codecKey, unmaskOut, encFrame, tableVars, notCodecVars>>

\* frame[0] = (len >> 8) & 0xFF; frame[1] = len & 0xFF
LengthPrefix(len) == <<(len \div 256) % 256, len % 256>>

\* SudokuAEAD.encrypt 66-75 on the bytes wasm.aeadEncrypt returned: maskData,
\* then the 2-byte length of the masked bytes in front of them
EncryptFrame(ciphertext) ==
    /\ Len(ciphertext) > 0
    /\ maskCalls < MaxMaskCalls
    /\ LET r == mask(rngState, ciphertext)
       IN  /\ rngState' = r.rng
           /\ maskOut' = r.out
           /\ encFrame' = LengthPrefix(Len(r.out)) \o r.out
    /\ maskIn' = ciphertext
    /\ maskCalls' = maskCalls + 1
    /\ codecPc' = "framed"
    /\ UNCHANGED <<codecKey, unmaskOut, tableVars, notCodecVars>>

\* a call of the export unmask on what the last mask call produced
UnmaskCall ==
    /\ codecPc = "masked"
    /\ unmaskOut' = unmask(maskOut)
    /\ codecPc' = "unmasked"
    /\ UNCHANGED <<rngState, codecKey, maskIn, maskOut, maskCalls, encFrame, tableVars, notCodecVars>>

\* handleUpload 267-271 on two requests that carry what the last mask call
\* produced, split after byte k: each body is handed to the export unmask
\* and the result is appended to session.pushUnmasked
UploadUnmask(k) ==
    /\ codecPc = "masked"
    /\ k \in 1 .. (Len(maskOut) - 1)
    /\ unmaskOut' = unmask(SubSeq(maskOut, 1, k)) \o unmask(SubSeq(maskOut, k + 1, Len(maskOut)))
    /\ codecPc' = "reassembled"
    /\ UNCHANGED <<rngState, codecKey, maskIn, maskOut, maskCalls, encFrame, tableVars, notCodecVars>>

\* the split points of a masked stream
SplitPoints == 1 .. (6 * MaxMaskLen + 32)

CodecNext ==
    \/ \E in \in MaskInputs : MaskCall(in)
    \/ UnmaskCall
    \/ \E k \in SplitPoints : UploadUnmask(k)
    \/ \E ciphertext \in MaskInputs : EncryptFrame(ciphertext)

\* the other components at rest
AeadIdle ==
    /\ aeadKey = <<>>
    /\ cipherType = CipherNone
    /\ nonceCounter = <<0, 0, 0, 0, 0, 0, 0, 0>>
    /\ sealIn = <<>>
    /\ sealOut = <<>>
    /\ sealFrom = <<0, 0, 0, 0, 0, 0, 0, 0>>
    /\ nonceLog = <<>>
    /\ sealCount = 0
    /\ decRet = 0
    /\ decOut = <<>>
    /\ aeadPc = "idle"

OpenIdle ==
    /\ openKey = <<>>
    /\ openNonce = <<>>
    /\ openPlain = <<>>
    /\ openSealed = <<>>
    /\ openIn = <<>>
    /\ openRet = 0
    /\ openOut = <<>>
    /\ openPc = "init"

\* C1: unmask applied to the output of mask(x) returns exactly x, for every
\* byte string x and every RNG state reached by earlier mask calls.
C1_MaskUnmaskRoundTrip == (codecPc = "unmasked") => (unmaskOut = maskIn)

\* C7: however the masked concatenation of frames is split between two
\* upload requests, also inside a group of four hints, the receive path
\* reassembles in pushUnmasked the bytes that were masked, so that the
\* frames it slices and opens are the frames sent, in order.
C7_SplitReassembly == (codecPc = "reassembled") => (unmaskOut = maskIn)

\* C24: the hints a call of unmask has collected towards a quadruple are
\* kept for the next call, so the bytes decoded from a stream handed to
\* unmask in two chunks are the bytes decoded from it in one piece, also
\* when the split falls inside a quadruple.
C24_AccumulatorSurvivesSplit ==
    (codecPc = "reassembled") => (unmaskOut = unmask(maskOut))

\* C23: the frame the poll sender builds for an AEAD output, here in the
\* first call of a session, is what mask returns for the 2-byte length of
\* the AEAD output followed by the AEAD output: the prefix counts AEAD bytes
\* and is masked with them, so that a receiver that unmasks first finds the
\* prefix in front of the frame.
C23_PrefixBeforeMasking ==
    (codecPc = "framed" /\ maskCalls = 1)
        => encFrame = mask(SeedOf(codecKey), LengthPrefix(Len(maskIn)) \o maskIn).out

\* C6: every byte of mask output satisfies (b & 0xC0) = 0x80 and
\* (b & 0x30) # 0, or is a byte of the padding pool.
C6_MaskOutputBytes ==
    \A i \in 1 .. Len(maskOut) :
        \/ BitAnd(maskOut[i], 192) = 128 /\ BitAnd(maskOut[i], 48) # 0
        \/ \E k \in 1 .. paddingPoolSize : paddingPool[k] = maskOut[i]

(***************************************************************************)
(* ChaCha20 (crypto_chacha20.go).  A uint32 is a pair <<hi16, lo16>>.      *)
(***************************************************************************)
chachaKeySize == 32
chachaNonceSize == 12
chachaBlockSize == 64

\* "expand 32-byte k": 0x61707865, 0x3320646e, 0x79622d32, 0x6b206574
chachaConstants == << <<24944, 30821>>, <<13088, 25710>>, <<31074, 11570>>, <<27424, 25972>> >>

Add32(a, b) ==
    LET lo == a[2] + b[2]
        hi == a[1] + b[1] + (lo \div 65536)
    IN  <<hi % 65536, lo % 65536>>

Xor32(a, b) == <<BitXor(a[1], b[1]), BitXor(a[2], b[2])>>

\* bits.RotateLeft32(x, n) for 0 < n <= 16
RotateLeft32(x, n) ==
    IF n = 16 THEN <<x[2], x[1]>>
    ELSE LET up == 2 ^ n
             down == 2 ^ (16 - n)
         IN  <<((x[1] * up) % 65536) + (x[2] \div down),
               ((x[2] * up) % 65536) + (x[1] \div down)>>

\* binary.LittleEndian.Uint32 / PutUint32 on bytes b[off+1 .. off+4]
LEUint32(b, off) == <<b[off + 3] + 256 * b[off + 4], b[off + 1] + 256 * b[off + 2]>>
LEPutUint32(w) == <<w[2] % 256, w[2] \div 256, w[1] % 256, w[1] \div 256>>

\* the state s with words i and k (0-based) replaced by the pair m
PutPair(s, i, k, m) == [s EXCEPT ![i + 1] = m[1], ![k + 1] = m[2]]

\* z ^= x; z = bits.RotateLeft32(z, n): the pair x, z
XorRotate(x, z, n) == <<x, RotateLeft32(Xor32(z, x), n)>>

\* one line pair of chachaQuarterRound on the state s:
\* s[i] += s[j]; s[k] ^= s[i]; s[k] = bits.RotateLeft32(s[k], n)
AddXorRotate(s, i, j, k, n) ==
    PutPair(s, i, k, XorRotate(Add32(s[i + 1], s[j + 1]), s[k + 1], n))

\* chachaQuarterRound on the words a, b, c, d of the state s (0-based)
chachaQuarterRound(s, a, b, c, d) ==
    AddXorRotate(AddXorRotate(AddXorRotate(AddXorRotate(s, a, b, d, 16),
                                           c, d, b, 12),
                              a, b, d, 8),
                 c, d, b, 7)

\* the words of the eight quarter rounds of a double round: four column
\* rounds, four diagonal rounds
quarterRoundWords ==
    << <<0, 4, 8, 12>>, <<1, 5, 9, 13>>, <<2, 6, 10, 14>>, <<3, 7, 11, 15>>,
       <<0, 5, 10, 15>>, <<1, 6, 11, 12>>, <<2, 7, 8, 13>>, <<3, 4, 9, 14>> >>

\* chachaQuarterRound on the words w of the state s
QuarterRoundOn(s, w) == chachaQuarterRound(s, w[1], w[2], w[3], w[4])

\* the quarter rounds lo .. hi of a double round, one after the other, by
\* halves; QuarterRoundsThen has the state t of the first half computed
\* before the second half starts
RECURSIVE QuarterRounds(_, _, _), QuarterRoundsThen(_, _, _)
QuarterRounds(s, lo, hi) ==
    IF lo = hi THEN QuarterRoundOn(s, quarterRoundWords[lo])
    ELSE QuarterRoundsThen(QuarterRounds(s, lo, (lo + hi) \div 2),
                           ((lo + hi) \div 2) + 1, hi)

QuarterRoundsThen(t, lo, hi) == IF t = t THEN QuarterRounds(t, lo, hi) ELSE t

\* one double round
chachaDoubleRound(s) == QuarterRounds(s, 1, Len(quarterRoundWords))

\* n >= 1 double rounds, by halves; RoundsThen has the state t of the
\* first half computed before the second half starts
RECURSIVE chachaRounds(_, _), RoundsThen(_, _)
chachaRounds(s, n) ==
    IF n = 1 THEN chachaDoubleRound(s)
    ELSE RoundsThen(chachaRounds(s, n \div 2), n - (n \div 2))

RoundsThen(t, n) == IF t = t THEN chachaRounds(t, n) ELSE t

\* chacha20Init: the cipher state [key, counter, nonce]; counter starts at 1
chacha20Init(key, nonce) ==
    [key |-> <<>> \o [i \in 1 .. 8 |-> LEUint32(key, 4 * (i - 1))],
     counter |-> <<0, 1>>,
     nonce |-> <<>> \o [i \in 1 .. 3 |-> LEUint32(nonce, 4 * (i - 1))]]

chacha20SetCounter(c, counter) == [c EXCEPT !.counter = counter]

\* the 64 output bytes: the words of final + init, little-endian; final is
\* computed first
BlockBytes(init, final) ==
    LET WordBytes(i) == LEPutUint32(Add32(final[i], init[i]))
    IN  IF final = final THEN ConcatRange(WordBytes, 1, 16) ELSE <<>>

\* the initial state s0 .. s15 of a block
BlockInit(c) == chachaConstants \o c.key \o <<c.counter>> \o c.nonce

\* the block of the initial state init (computed before the rounds start)
BlockOf(init) == IF init = init THEN BlockBytes(init, chachaRounds(init, 10)) ELSE <<>>

\* chacha20GenerateBlock: the 64 keystream bytes and the cipher with the
\* counter incremented
chacha20GenerateBlock(c) ==
    [block |-> BlockOf(BlockInit(c)),
     cipher |-> [c EXCEPT !.counter = Add32(c.counter, <<0, 1>>)]]

\* a byte array given by its elements, as an explicit sequence
Bytes(f) == f \o <<>>

\* n zero bytes (var pad [16]byte, fresh buffers)
Zeros(n) == Bytes([i \in 1 .. n |-> 0])

\* dst[i] = src[i] ^ keyStream[i] for the first n bytes
XorBytes(src, ks, n) == Bytes([i \in 1 .. n |-> BitXor(src[i], ks[i])])

\* chacha20Xor for a cipher whose buffer is empty (bufLen = 0, the state
\* chacha20SetCounter leaves): whole blocks, then the remaining bytes;
\* XorWith is the step with the generated block g
RECURSIVE chacha20Xor(_, _), XorWith(_, _), XorJoin(_, _)
chacha20Xor(c, src) ==
    IF Len(src) = 0 THEN [dst |-> <<>>, cipher |-> c]
    ELSE XorWith(chacha20GenerateBlock(c), src)

XorWith(g, src) ==
    IF g # g THEN g
    ELSE IF Len(src) >= chachaBlockSize
    THEN XorJoin(XorBytes(src, g.block, chachaBlockSize),
                 chacha20Xor(g.cipher, SubSeq(src, chachaBlockSize + 1, Len(src))))
    ELSE [dst |-> XorBytes(src, g.block, Len(src)), cipher |-> g.cipher]

XorJoin(head, rest) == [dst |-> head \o rest.dst, cipher |-> rest.cipher]

\* the cipher c after chacha20GenerateKey: the counter is 1, or the saved
\* counter when that was above 0
KeyGenerated(c) ==
    [c EXCEPT !.counter = IF c.counter # <<0, 0>> THEN c.counter ELSE <<0, 1>>]

\* chacha20GenerateKey: block 0 gives the 32-byte Poly1305 key
chacha20GenerateKey(c) ==
    [key |-> SubSeq(chacha20GenerateBlock(chacha20SetCounter(c, <<0, 0>>)).block, 1, 32),
     cipher |-> KeyGenerated(c)]

(***************************************************************************)
(* Poly1305 (part_000).  A uint64 is its 8 little-endian bytes.            *)
(***************************************************************************)
poly1305TagSize == 16

U64Zero == <<0, 0, 0, 0, 0, 0, 0, 0>>
U64Max == <<255, 255, 255, 255, 255, 255, 255, 255>>

\* uint64(n) for a small non-negative n
U64Of(n) == <<n % 256, (n \div 256) % 256, (n \div 65536) % 256, n \div 16777216, 0, 0, 0, 0>>

\* rMask0 = 0x0FFFFFFC0FFFFFFF, rMask1 = 0x0FFFFFFC0FFFFFFC
rMask0 == <<255, 255, 255, 15, 252, 255, 255, 15>>
rMask1 == <<252, 255, 255, 15, 252, 255, 255, 15>>
maskLow2Bits == U64Of(3)
maskNotLow2Bits == <<252, 255, 255, 255, 255, 255, 255, 255>>

And64(x, y) == Bytes([i \in 1 .. 8 |-> BitAnd(x[i], y[i])])
Or64(x, y) == Bytes([i \in 1 .. 8 |-> BitOr(x[i], y[i])])
Not64(x) == Bytes([i \in 1 .. 8 |-> 255 - x[i]])

\* the bytes of x + y + carry from byte i on, followed by the carry out
RECURSIVE AddFrom(_, _, _, _)
AddFrom(x, y, carry, i) ==
    IF i > 8 THEN <<carry>>
    ELSE LET t == x[i] + y[i] + carry
         IN  <<t % 256>> \o AddFrom(x, y, t \div 256, i + 1)

\* the sum and the carry out of the nine bytes d
SumCarry(d) == [sum |-> SubSeq(d, 1, 8), carry |-> d[9]]

\* bits.Add64(x, y, carry)
Add64(x, y, carry) == SumCarry(AddFrom(x, y, carry, 1))

\* x - 1 on uint64 (wraps at 0)
RECURSIVE DecFrom(_, _, _)
DecFrom(x, borrow, i) ==
    IF i > 8 THEN <<>>
    ELSE LET t == x[i] + 256 - borrow
         IN  <<t % 256>> \o DecFrom(x, IF t < 256 THEN 1 ELSE 0, i + 1)

Dec64(x) == DecFrom(x, 1, 1)

\* x >> 2 on uint64, with the two bits in shifted into the top
Shr2(x, in) ==
    Bytes([i \in 1 .. 8 |-> (x[i] \div 4) + 64 * (IF i < 8 THEN x[i + 1] % 4 ELSE in)])

\* bits.Mul64 as uint128{lo, hi}: schoolbook product of the bytes
MulColumn(x, y, k) ==
    LET lo == IF k > 7 THEN k - 7 ELSE 0
        hi == IF k > 7 THEN 7 ELSE k
        RECURSIVE Sum(_)
        Sum(i) == IF i > hi THEN 0 ELSE x[i + 1] * y[k - i + 1] + Sum(i + 1)
    IN  Sum(lo)

\* the bytes of the product from column k on, given the carry into it
RECURSIVE MulFrom(_, _, _)
MulFrom(cols, carry, k) ==
    IF k > 16 THEN <<>>
    ELSE LET t == cols[k] + carry
         IN  <<t % 256>> \o MulFrom(cols, t \div 256, k + 1)

\* the column sums of the product of the bytes of a and b
MulColumns(a, b) ==
    Bytes([k \in 1 .. 16 |-> IF k < 16 THEN MulColumn(a, b, k - 1) ELSE 0])

\* uint128{lo, hi} of the sixteen bytes d
LoHi(d) == [lo |-> SubSeq(d, 1, 8), hi |-> SubSeq(d, 9, 16)]

Mul64Of(cols) == IF cols = cols THEN LoHi(MulFrom(cols, 0, 1)) ELSE cols

mul64(a, b) == IF a = a /\ b = b THEN Mul64Of(MulColumns(a, b)) ELSE a

\* add128 given the sum l of the low words
Add128With(a, b, l) == [lo |-> l.sum, hi |-> Add64(a.hi, b.hi, l.carry).sum]

add128(a, b) == IF a = a /\ b = b THEN Add128With(a, b, Add64(a.lo, b.lo, 0)) ELSE a

shiftRightBy2(a) == [lo |-> Shr2(a.lo, a.hi[1] % 4), hi |-> Shr2(a.hi, 0)]

\* binary.LittleEndian.Uint64 on bytes b[off+1 .. off+8]
LEUint64(b, off) == SubSeq(b, off + 1, off + 8)

\* poly1305Init: r clamped, s, h = 0, empty buffer
poly1305Init(key) ==
    [h |-> <<U64Zero, U64Zero, U64Zero>>,
     r |-> <<And64(LEUint64(key, 0), rMask0), And64(LEUint64(key, 8), rMask1)>>,
     s |-> <<LEUint64(key, 16), LEUint64(key, 24)>>,
     buffer |-> <<>>]

\* h += m: the words h0, h1, h2 after the block was added; hibit is the
\* 2^128 that is added for a full block
polyAddBlock(h, buf, hibit) ==
    LET a0 == Add64(h[1], LEUint64(buf, 0), 0)
        a1 == Add64(h[2], LEUint64(buf, 8), a0.carry)
    IN  <<a0.sum, a1.sum, Add64(h[3], U64Of(a1.carry + hibit), 0).sum>>

\* the words t0 .. t3 of m0 + m1 * 2^64 + m2 * 2^128 + m3 * 2^192
polySumProducts(m0, m1, m2, m3) ==
    LET m == <<m0, m1, m2, m3>>
        t1 == Add64(m1.lo, m0.hi, 0)
        t2 == Add64(m2.lo, m1.hi, t1.carry)
        t3 == Add64(m3.lo, m2.hi, t2.carry)
    IN  IF m = m THEN <<m0.lo, t1.sum, t2.sum, t3.sum>> ELSE m

\* h *= r: the words t0 .. t3 of the product
polyMulR(h, r0, r1) ==
    IF h # h THEN h
    ELSE polySumProducts(mul64(h[1], r0),
                         add128(mul64(h[2], r0), mul64(h[1], r1)),
                         add128(mul64(h[3], r0), mul64(h[2], r1)),
                         mul64(h[3], r1))

\* the split of t at 2^130 into h and cc, then h += cc and h += cc >> 2
polyReduce(t) ==
    LET cc == [lo |-> And64(t[3], maskNotLow2Bits), hi |-> t[4]]
        b0 == Add64(t[1], cc.lo, 0)
        b1 == Add64(t[2], cc.hi, b0.carry)
        b2 == Add64(And64(t[3], maskLow2Bits), U64Of(b1.carry), 0).sum
        cs == shiftRightBy2(cc)
        c0 == Add64(b0.sum, cs.lo, 0)
        c1 == Add64(b1.sum, cs.hi, c0.carry)
    IN  IF t = t THEN <<c0.sum, c1.sum, Add64(b2, U64Of(c1.carry), 0).sum>> ELSE t

\* poly1305UpdateBlock: h = (h + m) * r, partially reduced mod 2^130 - 5
poly1305UpdateBlock(state, msg, isFinal) ==
    LET buf == IF isFinal
               THEN msg \o <<1>> \o Zeros(poly1305TagSize - Len(msg) - 1)
               ELSE msg
        hibit == IF isFinal THEN 0 ELSE 1
    IN  [state EXCEPT !.h = polyReduce(polyMulR(polyAddBlock(state.h, buf, hibit),
                                                state.r[1], state.r[2]))]

\* the context after the buffer got the content filled: absorbed when full
polyFilled(ctx, filled) ==
    IF Len(filled) = poly1305TagSize
    THEN [poly1305UpdateBlock(ctx, filled, FALSE) EXCEPT !.buffer = <<>>]
    ELSE [ctx EXCEPT !.buffer = filled]

\* poly1305Update: fill the 16-byte buffer, absorb it whenever it is full;
\* UpdateAfter has the context next computed before the rest is taken
RECURSIVE poly1305Update(_, _), UpdateAfter(_, _)
poly1305Update(ctx, data) ==
    IF ctx # ctx THEN ctx
    ELSE IF Len(data) = 0 THEN ctx
    ELSE LET n == Min(poly1305TagSize - Len(ctx.buffer), Len(data))
         IN  UpdateAfter(polyFilled(ctx, ctx.buffer \o SubSeq(data, 1, n)),
                         SubSeq(data, n + 1, Len(data)))

UpdateAfter(next, rest) == IF next = next THEN poly1305Update(next, rest) ELSE next

\* the tag of the accumulator h and the key part s: g = h + 5, the choice
\* between h and g by the mask, then h += s
polyTag(h, s) ==
    LET g0 == Add64(h[1], U64Of(5), 0)
        g1 == Add64(h[2], U64Zero, g0.carry)
        g2 == Add64(h[3], U64Of(g1.carry), 0).sum
        \* mask := uint64(int64(g2>>2) - 1)
        gMask == Dec64(Shr2(g2, 0))
        hMask == Not64(gMask)
        h0 == Or64(And64(h[1], hMask), And64(g0.sum, gMask))
        h1 == Or64(And64(h[2], hMask), And64(g1.sum, gMask))
        o0 == Add64(h0, s[1], 0)
    IN  IF h = h THEN o0.sum \o Add64(h1, s[2], o0.carry).sum ELSE h

\* the state after the bytes left in the buffer were absorbed
polyFlush(ctx) ==
    IF ctx # ctx THEN ctx
    ELSE IF Len(ctx.buffer) > 0 THEN poly1305UpdateBlock(ctx, ctx.buffer, TRUE) ELSE ctx

\* the tag of a flushed state
polyTagOf(state) == IF state = state THEN polyTag(state.h, state.s) ELSE state

\* poly1305Finalize: the 16 tag bytes
poly1305Finalize(ctx) == polyTagOf(polyFlush(ctx))

\* the Poly1305 input of the AEAD: ad, pad, ciphertext, pad, lengths
PadTo16(n) == IF n % 16 = 0 THEN <<>> ELSE Zeros(16 - (n % 16))

\* the context after data and its padding to a multiple of 16
UpdatePadded(ctx, data) == poly1305Update(poly1305Update(ctx, data), PadTo16(Len(data)))

\* the context after the additional data, if any
UpdateAd(ctx, ad) == IF Len(ad) > 0 THEN UpdatePadded(ctx, ad) ELSE ctx

aeadTag(polyKey, ad, ciphertext) ==
    poly1305Finalize(
        poly1305Update(UpdatePadded(UpdateAd(poly1305Init(polyKey), ad), ciphertext),
                       U64Of(Len(ad)) \o U64Of(Len(ciphertext))))

(***************************************************************************)
(* ChaCha20-Poly1305 (crypto_chacha20poly1305.go)                          *)
(***************************************************************************)
\* the output of Seal: the ciphertext followed by its tag
SealOutput(polyKey, additionalData, ciphertext) ==
    IF polyKey = polyKey /\ ciphertext = ciphertext
    THEN ciphertext \o aeadTag(polyKey, additionalData, ciphertext)
    ELSE ciphertext

\* Seal with the generated Poly1305 key and the cipher in k
SealWith(k, plaintext, additionalData) ==
    IF k # k THEN k
    ELSE SealOutput(k.key, additionalData,
               chacha20Xor(chacha20SetCounter(k.cipher, <<0, 1>>), plaintext).dst)

\* chacha20poly1305Seal: ciphertext followed by the 16-byte tag
chacha20poly1305Seal(key, nonce, plaintext, additionalData) ==
    SealWith(chacha20GenerateKey(chacha20Init(key, nonce)), plaintext, additionalData)

\* the end of Open without the clearing loop on a tag mismatch: the
\* caller's buffer keeps what it held
OpenCompareNoClear(c, ciphertext, tag, expectedTag, out) ==
    IF expectedTag # expectedTag THEN expectedTag
    ELSE IF \E i \in 1 .. poly1305TagSize : BitXor(tag[i], expectedTag[i]) # 0
    THEN [ret |-> -1, out |-> out]
    ELSE [ret |-> Len(ciphertext),
          out |-> chacha20Xor(c, ciphertext).dst
                      \o SubSeq(out, Len(ciphertext) + 1, Len(out))]

\* the end of Open: diff |= tag[i] ^ expectedTag[i]; on a mismatch out is
\* cleared and -1 returned, else the ciphertext is decrypted into out
OpenCompare(c, ciphertext, tag, expectedTag, out) ==
    IF expectedTag # expectedTag THEN expectedTag
    ELSE IF \E i \in 1 .. poly1305TagSize : BitXor(tag[i], expectedTag[i]) # 0
    THEN [ret |-> -1,
          out |-> Zeros(Len(ciphertext)) \o SubSeq(out, Len(ciphertext) + 1, Len(out))]
    ELSE [ret |-> Len(ciphertext),
          out |-> chacha20Xor(c, ciphertext).dst
                      \o SubSeq(out, Len(ciphertext) + 1, Len(out))]

\* Open with the generated Poly1305 key and the cipher in k
OpenWith(k, ciphertext, tag, additionalData, out) ==
    IF k # k THEN k
    ELSE OpenCompare(chacha20SetCounter(k.cipher, <<0, 1>>), ciphertext, tag,
                aeadTag(k.key, additionalData, ciphertext), out)

\* chacha20poly1305Open: the return value and the output buffer afterwards;
\* out is the caller's buffer, of at least ctLen - 16 bytes
chacha20poly1305Open(key, nonce, ciphertextAndTag, additionalData, out) ==
    IF Len(ciphertextAndTag) < poly1305TagSize THEN [ret |-> -1, out |-> out]
    ELSE OpenWith(chacha20GenerateKey(chacha20Init(key, nonce)),
                  SubSeq(ciphertextAndTag, 1, Len(ciphertextAndTag) - poly1305TagSize),
                  SubSeq(ciphertextAndTag, Len(ciphertextAndTag) - poly1305TagSize + 1,
                         Len(ciphertextAndTag)),
                  additionalData, out)

(***************************************************************************)
(* The AEAD session (main_20260220143838.go, section 8 and crypto part)    *)
(***************************************************************************)
\* session.nonceCounter is kept as its 8 big-endian bytes, the form in
\* which incNonce writes it to nonce[4:12]
CounterZero == <<0, 0, 0, 0, 0, 0, 0, 0>>
CounterMax == <<255, 255, 255, 255, 255, 255, 255, 255>>

\* session.nonceCounter++ on uint64 (wraps from 2^64-1 to 0)
RECURSIVE IncFrom(_, _)
IncFrom(c, i) ==
    IF i = 0 THEN c
    ELSE IF c[i] = 255 THEN IncFrom([c EXCEPT ![i] = 0], i - 1)
    ELSE [c EXCEPT ![i] = c[i] + 1]

\* a < b as uint64
CounterLess(a, b) ==
    \E i \in 1 .. 8 : a[i] < b[i] /\ \A j \in 1 .. (i - 1) : a[j] = b[j]

\* incNonce: the counter after the increment and the 12-byte nonce
incNonceAfterUse(key, counter) ==
    [counter |-> IncFrom(counter, 8), nonce |-> SubSeq(key, 1, 4) \o counter]

incNonce(key, counter) ==
    LET next == IncFrom(counter, 8)
    IN  [counter |-> next, nonce |-> SubSeq(key, 1, 4) \o next]

\* aeadEncryptChaCha20Poly1305: Seal with no additional data
aeadEncryptChaCha20Poly1305(key, plaintext, nonce) ==
    chacha20poly1305Seal(key, nonce, plaintext, <<>>)

\* aeadEncrypt: the bytes written at outPtr (their number is the return
\* value, 0 on failure) and the counter afterwards
aeadEncrypt(key, cipher, counter, plaintext) ==
    IF Len(plaintext) = 0 THEN [out |-> <<>>, counter |-> counter]
    ELSE IF cipher = CipherNone THEN [out |-> plaintext, counter |-> counter]
    ELSE IF cipher = CipherChaCha20Poly
    THEN [out |-> aeadEncryptChaCha20Poly1305(key, plaintext,
                                              incNonce(key, counter).nonce),
          counter |-> incNonce(key, counter).counter]
    ELSE [out |-> <<>>, counter |-> incNonce(key, counter).counter]

\* aeadDecryptChaCha20Poly1305: the first 12 input bytes are taken as the
\* nonce, the rest as ciphertext and tag; out is arena[outPtr : outPtr+ctLen]
OpenedOrZero(r) == IF r.ret < 0 THEN [ret |-> 0, out |-> r.out] ELSE r

aeadDecryptChaCha20Poly1305(key, ciphertext, arenaOut) ==
    IF Len(ciphertext) < 16 THEN [ret |-> 0, out |-> arenaOut]
    ELSE OpenedOrZero(chacha20poly1305Open(key, SubSeq(ciphertext, 1, 12),
                                           SubSeq(ciphertext, 13, Len(ciphertext)),
                                           <<>>, arenaOut))

\* aeadDecrypt: the return value and the arena bytes at outPtr afterwards
aeadDecrypt(key, cipher, ciphertext, arenaOut) ==
    IF Len(ciphertext) = 0 THEN [ret |-> 0, out |-> arenaOut]
    ELSE IF cipher = CipherNone
    THEN [ret |-> Len(ciphertext),
          out |-> ciphertext \o SubSeq(arenaOut, Len(ciphertext) + 1, Len(arenaOut))]
    ELSE IF cipher = CipherChaCha20Poly
    THEN aeadDecryptChaCha20Poly1305(key, ciphertext, arenaOut)
    ELSE [ret |-> 0, out |-> arenaOut]

\* the keys of the sessions explored (32 bytes)
AeadKeys ==
    { Bytes([i \in 1 .. 32 |-> 0]),
      Bytes([i \in 1 .. 32 |-> 127 + i]) }

CipherTypes == {CipherNone, CipherAES128GCM, CipherChaCha20Poly}

\* a plaintext longer than a nonce
LongPlain == <<76, 97, 100, 105, 101, 115, 32, 97, 110, 100, 32, 71, 101, 110, 116, 108>>

PlainBytes == {0, 255}

Plaintexts == SeqsUpTo(PlainBytes, MaxPlainLen) \cup {LongPlain}

CodecIdle ==
    /\ rngState = <<0, 0>>
    /\ codecKey = <<>>
    /\ maskIn = <<>>
    /\ maskOut = <<>>
    /\ unmaskOut = <<>>
    /\ codecPc = "idle"
    /\ maskCalls = 0
    /\ encFrame = <<>>
    /\ encodeTable = <<>>
    /\ decodeTable = <<>>
    /\ paddingPool = <<>>

\* initSession(key, cipherType): nonceCounter = 0
AeadInit ==
    /\ aeadKey \in AeadKeys
    /\ cipherType \in CipherTypes
    /\ nonceCounter = CounterZero
    /\ sealIn = <<>>
    /\ sealOut = <<>>
    /\ sealFrom = CounterZero
    /\ nonceLog = <<>>
    /\ sealCount = 0
    /\ decRet = 0
    /\ decOut = <<>>
    /\ aeadPc = "idle"

\* the session after aeadEncrypt returned r for the plaintext p
AeadEncryptReturn(p, r) ==
    /\ nonceCounter' = r.counter
    /\ sealOut' = r.out
    /\ aeadPc' = IF Len(r.out) > 0 THEN "sealed" ELSE "refused"
    /\ nonceLog' = IF cipherType = CipherChaCha20Poly /\ Len(r.out) > 0
                   THEN Append(nonceLog, [from |-> r.counter, to |-> r.counter])
                   ELSE nonceLog
    /\ sealIn' = p
    /\ sealFrom' = nonceCounter
    /\ sealCount' = sealCount + 1
    /\ decRet' = 0
    /\ decOut' = <<>>
    /\ UNCHANGED <<aeadKey, cipherType, notAeadVars>>

\* a call of the export aeadEncrypt(id, plaintextPtr, plaintextLen, outPtr)
AeadEncryptCall(p) ==
    /\ sealCount < MaxSeals
    /\ AeadEncryptReturn(p, aeadEncrypt(aeadKey, cipherType, nonceCounter, p))

\* the aeadEncrypt calls of a long-lived session taken in one step: each
\* call increments the counter once, up to the last value of the counter
AeadEncryptRun ==
    /\ cipherType # CipherNone
    /\ aeadPc # "ran"
    /\ CounterLess(nonceCounter, CounterMax)
    /\ nonceCounter' = CounterMax
    /\ nonceLog' = IF cipherType = CipherChaCha20Poly
                   THEN Append(nonceLog, [from |-> IncFrom(nonceCounter, 8),
                                          to |-> CounterMax])
                   ELSE nonceLog
    /\ sealIn' = <<>>
    /\ sealOut' = <<>>
    /\ sealFrom' = nonceCounter
    /\ aeadPc' = "ran"
    /\ decRet' = 0
    /\ decOut' = <<>>
    /\ UNCHANGED <<aeadKey, cipherType, sealCount, notAeadVars>>

\* the session after aeadDecrypt returned r
AeadDecryptReturn(r) ==
    /\ decRet' = r.ret
    /\ decOut' = SubSeq(r.out, 1, r.ret)
    /\ aeadPc' = "decrypted"
    /\ UNCHANGED <<aeadKey, cipherType, nonceCounter, sealIn, sealOut, sealFrom,
                   nonceLog, sealCount, notAeadVars>>

\* a call of the export aeadDecrypt on the bytes the last aeadEncrypt
\* returned, with a fresh (zero) output area of the input's length
AeadDecryptCall ==
    /\ aeadPc = "sealed"
    /\ AeadDecryptReturn(aeadDecrypt(aeadKey, cipherType, sealOut, Zeros(Len(sealOut))))

AeadNext ==
    \/ \E p \in Plaintexts : AeadEncryptCall(p)
    \/ AeadEncryptRun
    \/ AeadDecryptCall

\* C2: in a ChaCha20-Poly1305 session, aeadDecrypt applied to the bytes
\* aeadEncrypt produced for a non-empty plaintext p returns p.
C2_SealOpenRoundTrip ==
    (aeadPc = "decrypted" /\ cipherType = CipherChaCha20Poly)
        => (decRet = Len(sealIn) /\ decOut = sealIn)

\* C4: over the seals of one session the nonces emitted are strictly
\* increasing, so no counter value is used twice with the same key.
C4_NoncesStrictlyIncreasing ==
    \A i \in 1 .. Len(nonceLog) : \A j \in 1 .. Len(nonceLog) :
        i < j => CounterLess(nonceLog[i].to, nonceLog[j].from)

\* C5: once the 64-bit counter has reached its maximum, a further seal is
\* refused: no frame is emitted under the wrapped counter.
C5_RefusesAtCounterMax ==
    ~(aeadPc = "sealed" /\ cipherType = CipherChaCha20Poly /\ sealFrom = CounterMax)

\* the 64-bit counter of value k < 256, most significant byte first
CounterOf(k) == <<0, 0, 0, 0, 0, 0, 0, k>>

\* C20: in a ChaCha20-Poly1305 session that has sealed frames one call at a
\* time since initSession, the k-th sealed frame used counter k, the counter
\* of the session is the number of frames sealed, and the frame sealed last
\* is the Seal of its plaintext under the nonce key[0..4] followed by the
\* big-endian 64-bit counter.
C20_KthFrameUsesCounterK ==
    (cipherType = CipherChaCha20Poly
     /\ \A i \in 1 .. Len(nonceLog) : nonceLog[i].to # CounterMax)
    => /\ \A k \in 1 .. Len(nonceLog) :
             nonceLog[k] = [from |-> CounterOf(k), to |-> CounterOf(k)]
       /\ nonceCounter = CounterOf(Len(nonceLog))
       /\ aeadPc = "sealed"
            => sealOut = chacha20poly1305Seal(
                             aeadKey,
                             SubSeq(aeadKey, 1, 4) \o CounterOf(Len(nonceLog)),
                             sealIn, <<>>)

\* four frames sealed on a fresh session, the fourth under counter 4
C20_Witness ==
    /\ cipherType = CipherChaCha20Poly
    /\ aeadPc = "sealed"
    /\ Len(nonceLog) = 4
    /\ nonceLog[1].from = CounterOf(1)
    /\ nonceLog[4].from = CounterOf(4)
    /\ nonceCounter = CounterOf(4)

(***************************************************************************)
(* chacha20poly1305Open on sealed and on tampered input                    *)
(***************************************************************************)
\* byte b with bit k (0 = least significant) flipped
FlipBit(b, k) == IF (b \div (2 ^ k)) % 2 = 1 THEN b - 2 ^ k ELSE b + 2 ^ k

\* the non-empty short plaintexts
OpenPlains == SeqsUpTo(PlainBytes, MaxPlainLen) \ {<<>>}

\* an output buffer holding earlier data (every byte 0xAA)
StaleOut(n) == Bytes([i \in 1 .. n |-> 170])

OpenInit ==
    /\ openKey \in AeadKeys
    /\ openNonce = incNonce(openKey, CounterZero).nonce
    /\ openPlain \in OpenPlains
    /\ openSealed = <<>>
    /\ openIn = <<>>
    /\ openRet = 0
    /\ openOut = <<>>
    /\ openPc = "init"

\* chacha20poly1305Seal(key, nonce, plaintext, nil)
SealCall ==
    /\ openPc = "init"
    /\ openSealed' = chacha20poly1305Seal(openKey, openNonce, openPlain, <<>>)
    /\ openPc' = "sealed"
    /\ UNCHANGED <<openKey, openNonce, openPlain, openIn, openRet, openOut, notOpenVars>>

\* the experiment after Open returned r for the input in
OpenReturn(in, r) ==
    /\ openRet' = r.ret
    /\ openOut' = r.out
    /\ openIn' = in
    /\ openPc' = "opened"
    /\ UNCHANGED <<openKey, openNonce, openPlain, openSealed, notOpenVars>>

\* chacha20poly1305Open(key, nonce, in, nil) into a buffer of ciphertextLen
\* bytes that holds earlier data
OpenOf(in) ==
    OpenReturn(in, chacha20poly1305Open(openKey, openNonce, in, <<>>,
                                        StaleOut(Len(in) - poly1305TagSize)))

\* Open on exactly what Seal produced
OpenIntact ==
    /\ openPc = "sealed"
    /\ OpenOf(openSealed)

\* Open after one bit of the ciphertext or of the tag was flipped
OpenTampered(i, k) ==
    /\ openPc = "sealed"
    /\ i \in 1 .. Len(openSealed)
    /\ OpenOf([openSealed EXCEPT ![i] = FlipBit(openSealed[i], k)])

OpenNext ==
    \/ SealCall
    \/ OpenIntact
    \/ \E i \in 1 .. (MaxPlainLen + poly1305TagSize) : \E k \in 0 .. 7 : OpenTampered(i, k)

\* C3: flipping any bit of the ciphertext or of the tag makes
\* chacha20poly1305Open fail, and the output buffer is then entirely zero.
C3_TamperFailsAndZeroes ==
    (openPc = "opened" /\ openIn # openSealed)
        => /\ openRet = -1
           /\ \A i \in 1 .. Len(openOut) : openOut[i] = 0

\* C3 witness: a flipped ciphertext bit was rejected and the stale buffer
\* was cleared
C3_Witness ==
    /\ openPc = "opened"
    /\ openIn # openSealed
    /\ SubSeq(openIn, Len(openPlain) + 1, Len(openIn))
           = SubSeq(openSealed, Len(openPlain) + 1, Len(openSealed))
    /\ openRet = -1
    /\ Len(openOut) = Len(openPlain)
    /\ \A i \in 1 .. Len(openOut) : openOut[i] = 0

(***************************************************************************)
(* The poll session manager: poll-session.ts (second version, lines        *)
(* 82-202) and the handlers of part_003.  Time is Date.now() in ms.  The   *)
(* event loop runs a resumed continuation before it takes the next event,  *)
(* and a timer fires when it is due.  The session is created in relay      *)
(* mode (UPSTREAM_HOST set), and the client holds one long poll at a time. *)
(* A frame is named by its number k >= 1 in the order handleUpstreamRead   *)
(* produced it; the line holding it in a response is k, a keepalive is NL. *)
(***************************************************************************)
LONG_POLL_TIMEOUT_MS == 25000
HEARTBEAT_INTERVAL_MS == 5000
maxAgeMs == 300000
NL == 0

MaxNow == 25000         \* the clock is advanced while it is below MaxNow
MaxFrames == 2          \* chunks read from the upstream socket
MaxUploadBytes == 8     \* unmasked bytes received in upload bodies

\* the ids generateSessionId returns, and the tokens requests carry
SessionIds == {"t1"}
Tokens == {"t1", "t2"}
UploadIds == {1, 2}

\* amounts by which the clock is advanced in one step
TickSteps == {3000, maxAgeMs + 1000}

\* createSession: the Session object registered under id
createSession(id) ==
    [id |-> id, closed |-> FALSE, pullBuffer |-> <<>>, pushUnmasked |-> <<>>,
     lastActivity |-> now, dataNotify |-> 0,
     upstreamSocket |-> "null", upstreamWriter |-> "null", reader |-> "none"]

\* handleSession 86-93: connect, getWriter, start handleUpstreamRead
Connected(s) ==
    [s EXCEPT !.upstreamSocket = "open", !.upstreamWriter = "open", !.reader = "reading"]

\* socket.close() / writer.close() on a field that may be null
Closed(handle) == IF handle = "null" THEN "null" ELSE "closed"

\* getSession: the registry lookup; a hit refreshes lastActivity
RegisteredOnceIssued(token) == token \in issued
Registered(token) == token \in sessions
Touched(s) == [s EXCEPT !.lastActivity = now]

\* `!session || session.closed` of the handlers
NotFoundUnissued(token) == token \notin issued
NotFound(token) == ~Registered(token) \/ session[token].closed

\* whether the registry entry is older than the idle timeout when a request
\* with the token arrives (cleanupSessions 191)
Stale(token) == Registered(token) /\ now - session[token].lastActivity > maxAgeMs

\* getSession's effect on the Session objects
AfterGet(token) ==
    IF Registered(token) THEN [session EXCEPT ![token] = Touched(@)] ELSE session

NoStream == [pc |-> "none", token |-> "", start |-> 0, waiter |-> 0, out |-> <<>>, why |-> ""]

\* the `done` of the waiter the second stream request awaits has run
Stream2Ready == stream2.pc = "waiting" /\ invoked[stream2.waiter] > 0

\* no continuation is waiting to run
Quiescent == stream.pc # "resumed" /\ ~Stream2Ready

PollIdle ==
    /\ sessions = {}
    /\ issued = {}
    /\ session = [t \in {} |-> 0]
    /\ stream = NoStream
    /\ timers = {}
    /\ invoked = <<>>
    /\ now = 0
    /\ produced = 0
    /\ delivered = <<>>
    /\ upstreamOut = <<>>
    /\ upload = [u \in UploadIds |-> [pc |-> "idle", token |-> ""]]
    /\ uploaded = <<>>
    /\ status = 0
    /\ closedTokens = {}
    /\ failedTokens = {}
    /\ stream2 = NoStream

\* clearTimeout(timer) of the waiter w
KeptTimers(w) == timers
ClearedTimers(w) == {tm \in timers : tm.waiter # w}

\* done (waitForData 177-181), apart from its write to session.dataNotify:
\* clear the timer, resolve the promise the stream handler awaits
InvokeDone(w) ==
    /\ timers' = ClearedTimers(w)
    /\ invoked' = [invoked EXCEPT ![w] = @ + 1]
    /\ stream' = IF stream.pc = "waiting" /\ stream.waiter = w
                 THEN [stream EXCEPT !.pc = "resumed"]
                 ELSE stream

\* `if (session.dataNotify) { fn = session.dataNotify; ...; fn() }`
WakeNobody(slot) == UNCHANGED <<timers, invoked, stream>>
Wake(slot) ==
    IF slot # 0 THEN InvokeDone(slot) ELSE UNCHANGED <<timers, invoked, stream>>

\* deleteSession 142-150 on the Session object (the caller drops the entry)
deleteSession(s) ==
    [s EXCEPT !.closed = TRUE, !.dataNotify = 0, !.upstreamSocket = Closed(@)]

\* handleStream 164-165, 178
Remaining(start) == LONG_POLL_TIMEOUT_MS - (now - start)
waitTimeHeartbeat(start) == HEARTBEAT_INTERVAL_MS
waitTime(start) == Min(Remaining(start), HEARTBEAT_INTERVAL_MS)

\* handleStream 163-186 from the loop head to the next suspension: leave the
\* loop when the session is closed or the budget is used up, else write
\* every queued frame and suspend in waitForData with a new waiter
StreamCloseEndsSession(token, s, start, out) ==
    /\ stream' = [pc |-> "closed", token |-> token, start |-> start, waiter |-> 0,
                  out |-> out, why |-> IF s.closed THEN "closed" ELSE "budget"]
    /\ session' = [session EXCEPT ![token] = deleteSession(s)]
    /\ UNCHANGED <<timers, invoked, delivered>>

StreamClose(token, s, start, out) ==
    /\ stream' = [pc |-> "closed", token |-> token, start |-> start, waiter |-> 0,
                  out |-> out, why |-> IF s.closed THEN "closed" ELSE "budget"]
    /\ session' = [session EXCEPT ![token] = s]
    /\ UNCHANGED <<timers, invoked, delivered>>

StreamWait(token, s, start, out, w) ==
    /\ stream' = [pc |-> "waiting", token |-> token, start |-> start, waiter |-> w,
                  out |-> out \o s.pullBuffer, why |-> ""]
    /\ delivered' = delivered \o s.pullBuffer
    /\ session' = [session EXCEPT ![token] = [s EXCEPT !.pullBuffer = <<>>, !.dataNotify = w]]
    /\ invoked' = Append(invoked, 0)
    /\ timers' = timers \cup {[waiter |-> w, token |-> token, at |-> now + waitTime(start)]}

StreamLoop(token, s, start, out) ==
    IF s.closed \/ Remaining(start) <= 0
    THEN StreamClose(token, s, start, out)
    ELSE StreamWait(token, s, start, out, Len(invoked) + 1)

\* pullBuffer.push(data)
PushedFront(buf, frame) == <<frame>> \o buf
Pushed(buf, frame) == Append(buf, frame)

\* the waiter notifyData takes out of the slot and invokes
NotifyNobody(s) == 0
NotifyTarget(s) == s.dataNotify

\* notifyData on the Session object
notifyData(s, data) ==
    [s EXCEPT !.pullBuffer = Pushed(@, data), !.dataNotify = 0]

\* handleStream 181-184: the keepalive line after a wait that brought nothing
HeartbeatNone(s, out) == out
Heartbeat(s, out) ==
    IF Len(s.pullBuffer) = 0 /\ ~s.closed THEN Append(out, NL) ELSE out

\* handleFin 393-397
FinClosesSocket(s) == [s EXCEPT !.upstreamSocket = Closed(@)]
FinClosed(s) ==
    IF s.upstreamWriter # "null"
    THEN [s EXCEPT !.upstreamWriter = "closed"]
    ELSE [s EXCEPT !.upstreamSocket = Closed(@)]

\* handleClose 427-433
CloseHandles(s) ==
    [s EXCEPT !.closed = TRUE, !.upstreamWriter = Closed(@), !.upstreamSocket = Closed(@)]

\* the earliest pending timer, if it is due before now + d, else now + d
NextTime(d) ==
    IF \E tm \in timers : tm.at < now + d
    THEN (CHOOSE tm \in timers : \A other \in timers : tm.at <= other.at).at
    ELSE now + d

\* ---- the handlers -------------------------------------------------------

\* handleSession 79-100: a fresh token; connect may throw
HandleSession ==
    /\ Quiescent
    /\ \E id \in SessionIds \ issued : \E connects \in BOOLEAN :
        /\ issued' = issued \cup {id}
        /\ sessions' = IF connects THEN sessions \cup {id} ELSE sessions
        /\ session' = [t \in issued \cup {id} |->
                          IF t # id THEN session[t]
                          ELSE IF connects THEN Connected(createSession(id))
                          ELSE deleteSession(createSession(id))]
        /\ status' = IF connects THEN 200 ELSE 502
    /\ UNCHANGED <<stream, timers, invoked, now, produced, delivered, upstreamOut,
                   upload, uploaded, closedTokens, failedTokens, notPollVars>>

\* handleStream 149-193 up to its first suspension
StreamRequest(token) ==
    /\ Quiescent
    /\ stream.pc \in {"none", "closed"}
    /\ status' = IF NotFound(token) THEN 404 ELSE 200
    /\ IF NotFound(token)
       THEN /\ session' = AfterGet(token)
            /\ UNCHANGED <<stream, timers, invoked, delivered>>
       ELSE StreamLoop(token, Touched(session[token]), now, <<>>)
    /\ UNCHANGED <<sessions, issued, now, produced, upstreamOut, upload, uploaded,
                   closedTokens, failedTokens>>

HandleStream(token) == StreamRequest(token) /\ UNCHANGED notPollVars

\* handleStream 179-186: the continuation after `await waitForData`
StreamResume ==
    /\ stream.pc = "resumed"
    /\ StreamLoop(stream.token, session[stream.token], stream.start,
                  Heartbeat(session[stream.token], stream.out))
    /\ UNCHANGED <<sessions, issued, now, produced, upstreamOut, upload, uploaded,
                   status, closedTokens, failedTokens, notPollVars>>

\* waitForData 183: the timer of a waiter fires and runs its `done`
WaiterTimeout ==
    /\ Quiescent
    /\ \E tm \in timers :
        /\ tm.at <= now
        /\ session' = [session EXCEPT ![tm.token].dataNotify = 0]
        /\ InvokeDone(tm.waiter)
    /\ UNCHANGED <<sessions, issued, now, produced, delivered, upstreamOut, upload,
                   uploaded, status, closedTokens, failedTokens, notPollVars>>

\* handleUpstreamRead 449-461: a chunk arrives, is sealed and handed to notifyData
UpstreamData(token) ==
    /\ Quiescent
    /\ token \in issued
    /\ session[token].reader = "reading"
    /\ session[token].upstreamSocket = "open"
    /\ produced < MaxFrames
    /\ produced' = produced + 1
    /\ session' = [session EXCEPT ![token] = notifyData(@, produced + 1)]
    /\ Wake(NotifyTarget(session[token]))
    /\ UNCHANGED <<sessions, issued, now, delivered, upstreamOut, upload, uploaded,
                   status, closedTokens, failedTokens, notPollVars>>

\* handleUpstreamRead 450-473: EOF or a read error ends the reader
UpstreamEnd(token) ==
    /\ Quiescent
    /\ token \in issued
    /\ session[token].reader = "reading"
    /\ session' = [session EXCEPT ![token].reader = "ended", ![token].closed = TRUE,
                                  ![token].dataNotify = 0]
    /\ Wake(session[token].dataNotify)
    /\ UNCHANGED <<sessions, issued, now, produced, delivered, upstreamOut, upload,
                   uploaded, status, closedTokens, failedTokens, notPollVars>>

\* handleFin 387-399
FinRequest(token) ==
    /\ Quiescent
    /\ status' = IF NotFound(token) THEN 404 ELSE 200
    /\ session' = IF NotFound(token) THEN AfterGet(token)
                  ELSE [session EXCEPT ![token] = FinClosed(Touched(@))]
    /\ UNCHANGED <<sessions, issued, stream, timers, invoked, now, produced, delivered,
                   upstreamOut, upload, uploaded, closedTokens, failedTokens>>

HandleFin(token) == FinRequest(token) /\ UNCHANGED notPollVars

\* handleClose 421-436, with the deleteSession it calls
CloseRequest(token) ==
    /\ Quiescent
    /\ status' = IF NotFound(token) THEN 404 ELSE 200
    /\ IF NotFound(token)
       THEN /\ session' = AfterGet(token)
            /\ UNCHANGED <<sessions, closedTokens, timers, invoked, stream>>
       ELSE /\ session' = [session EXCEPT ![token] = deleteSession(CloseHandles(Touched(@)))]
            /\ sessions' = sessions \ {token}
            /\ closedTokens' = closedTokens \cup {token}
            /\ Wake(session[token].dataNotify)
    /\ UNCHANGED <<issued, now, produced, delivered, upstreamOut, upload, uploaded,
                   failedTokens>>

HandleClose(token) == CloseRequest(token) /\ UNCHANGED notPollVars

\* the clock advances, but not past a pending timer
Tick(d) ==
    /\ Quiescent
    /\ now < MaxNow
    /\ \A tm \in timers : tm.at > now
    /\ now' = NextTime(d)
    /\ UNCHANGED <<sessions, issued, session, stream, timers, invoked, produced,
                   delivered, upstreamOut, upload, uploaded, status, closedTokens,
                   failedTokens, notPollVars>>

\* ---- handleUpload -------------------------------------------------------
\* The bytes of a request body are given as session.aead.unmask returns them.
\* A frame is <<hi, lo>> \o payload; the last payload byte stands for the tag,
\* and wasm.aeadDecrypt accepts the payload when the tag fits its first byte.
TagOf(body) == 255 - body[1]

\* SudokuAEAD.decrypt 99-119: the plaintext, or <<>> for null
aeadOpen(payload) ==
    IF Len(payload) >= 2 /\ payload[Len(payload)] = TagOf(payload)
    THEN SubSeq(payload, 1, Len(payload) - 1)
    ELSE <<>>

\* (data[0] << 8) | data[1]
FrameLen(data) == data[1] * 256 + data[2]

\* SudokuAEAD.decrypt 84-124
decrypt(data) ==
    IF Len(data) < 2 THEN <<>>
    ELSE IF Len(data) < 2 + FrameLen(data) THEN <<>>
    ELSE aeadOpen(SubSeq(data, 3, 2 + FrameLen(data)))

\* session.pushUnmasked.slice(2 + frameLen)
SlidShort(buf, frameLen) == SubSeq(buf, 1 + frameLen, Len(buf))
Slid(buf, frameLen) == SubSeq(buf, 3 + frameLen, Len(buf))

\* upstreamWriter.write(decrypted): the sink takes chunks in the order of the calls
Written(out, decrypted) == Append(out, decrypted)

\* handleUpload 274-359 from the loop head to the next `await write`, or to
\* the end of the loop: buf is pushUnmasked as the loop leaves it, plain the
\* plaintext to write (got), failed whether a frame failed decryption
RECURSIVE ParseFrames(_, _, _)
ParseFrames(buf, writer, failed) ==
    IF Len(buf) < 2 \/ Len(buf) < 2 + FrameLen(buf)
    THEN [buf |-> buf, got |-> FALSE, plain |-> <<>>, failed |-> failed]
    ELSE IF decrypt(SubSeq(buf, 1, 2 + FrameLen(buf))) = <<>>
    THEN ParseFrames(Slid(buf, FrameLen(buf)), writer, TRUE)
    ELSE IF writer = "null"
    THEN ParseFrames(Slid(buf, FrameLen(buf)), writer, failed)
    ELSE [buf |-> Slid(buf, FrameLen(buf)), got |-> TRUE,
          plain |-> decrypt(SubSeq(buf, 1, 2 + FrameLen(buf))), failed |-> failed]

\* the frames a client uploads, whole, split and joined
FrameA == <<0, 2, 5, 250>>
FrameB == <<0, 2, 6, 249>>
FrameForged == <<0, 2, 5, 0>>
UploadChunks ==
    { <<>>, FrameA, FrameB, FrameForged, FrameA \o FrameB,
      SubSeq(FrameA, 1, 1), SubSeq(FrameA, 2, 4) }

\* handleUpload after a run r of the frame loop: suspend in write, fail on a
\* closed writer (the catch answers 500), or answer 200
UploadStep(u, token, r) ==
    /\ session' = [session EXCEPT ![token].pushUnmasked = r.buf]
    /\ failedTokens' = IF r.failed THEN failedTokens \cup {token} ELSE failedTokens
    /\ upstreamOut' = IF r.got /\ session[token].upstreamWriter = "open"
                      THEN Written(upstreamOut, r.plain) ELSE upstreamOut
    /\ upload' = [upload EXCEPT ![u].pc = IF r.got /\ session[token].upstreamWriter = "open"
                                          THEN "writing" ELSE "idle"]
    /\ status' = IF r.got /\ session[token].upstreamWriter = "open" THEN status
                  ELSE IF r.got THEN 500 ELSE 200

\* handleUpload 231-234: the lookup, then `await request.text()`
UploadRequest(u, token) ==
    /\ Quiescent
    /\ upload[u].pc = "idle"
    /\ session' = AfterGet(token)
    /\ status' = IF NotFound(token) THEN 404 ELSE status
    /\ upload' = IF NotFound(token) THEN upload
                 ELSE [upload EXCEPT ![u] = [pc |-> "body", token |-> token]]
    /\ UNCHANGED <<sessions, issued, stream, timers, invoked, now, produced, delivered,
                   upstreamOut, uploaded, closedTokens, failedTokens>>

HandleUpload(u, token) == UploadRequest(u, token) /\ UNCHANGED notPollVars

\* handleUpload 237-359: the body has arrived; unmask it, append it to
\* pushUnmasked and run the frame loop
UploadBody(u, chunk) ==
    /\ Quiescent
    /\ upload[u].pc = "body"
    /\ Len(uploaded) + Len(chunk) <= MaxUploadBytes
    /\ uploaded' = uploaded \o chunk
    /\ UploadStep(u, upload[u].token,
                  ParseFrames(session[upload[u].token].pushUnmasked \o chunk,
                              session[upload[u].token].upstreamWriter, FALSE))
    /\ UNCHANGED <<sessions, issued, stream, timers, invoked, now, produced, delivered,
                   closedTokens, notPollVars>>

\* handleUpload 356-359: the write has been taken; the loop goes on
UploadResume(u) ==
    /\ Quiescent
    /\ upload[u].pc = "writing"
    /\ UploadStep(u, upload[u].token,
                  ParseFrames(session[upload[u].token].pushUnmasked,
                              session[upload[u].token].upstreamWriter, FALSE))
    /\ UNCHANGED <<sessions, issued, stream, timers, invoked, now, produced, delivered,
                   uploaded, closedTokens, notPollVars>>

\* the long poll: the stream handler, the upstream reader, fin, close, the clock
PollNext ==
    \/ HandleSession
    \/ \E token \in Tokens : HandleStream(token)
    \/ StreamResume
    \/ WaiterTimeout
    \/ \E token \in SessionIds : UpstreamData(token)
    \/ \E token \in SessionIds : UpstreamEnd(token)
    \/ \E token \in Tokens : HandleFin(token)
    \/ \E token \in Tokens : HandleClose(token)
    \/ \E d \in TickSteps : Tick(d)

\* the requests of a client at a standing clock: uploads in flight together
\* with stream, fin and close
UploadNext ==
    \/ HandleSession
    \/ \E token \in Tokens : HandleStream(token)
    \/ StreamResume
    \/ \E token \in SessionIds : UpstreamEnd(token)
    \/ \E token \in Tokens : HandleFin(token)
    \/ \E token \in Tokens : HandleClose(token)
    \/ \E u \in UploadIds, token \in Tokens : HandleUpload(u, token)
    \/ \E u \in UploadIds, chunk \in UploadChunks : UploadBody(u, chunk)
    \/ \E u \in UploadIds : UploadResume(u)

(***************************************************************************)
(* One WebSocket tunnel: handleWebSocket of src/index.ts after ws.accept,  *)
(* with the default CIPHER_METHOD 'none'.  The client's frames are given   *)
(* as wasm.unmask returns them, cut into messages at any place; an         *)
(* upstream chunk is given by its length, and a frame the sender builds by *)
(* its 2-byte prefix and the number of payload bytes behind it.            *)
(***************************************************************************)
MaxWsChunks == 2        \* chunks read from the upstream socket of the tunnel

\* the client's stream: the frames 00 02 05 06 and 00 01 07
WsClientStream == <<0, 2, 5, 6, 0, 1, 7>>

\* lengths of the chunks upstreamReader.read returns
WsChunkSizes == {1, 300, 65535, 65536}

WsOpen == [state |-> "open", code |-> 0, reason |-> ""]

WsClosed(code, reason) == [state |-> "closed", code |-> code, reason |-> reason]

WsIdle ==
    /\ wsConn = [state |-> "none", code |-> 0, reason |-> ""]
    /\ wsFed = 0
    /\ wsWritten = <<>>
    /\ wsFrames = <<>>

WsInit ==
    /\ wsConn = WsOpen
    /\ wsFed = 0
    /\ wsWritten = <<>>
    /\ wsFrames = <<>>

\* AeadManager.encrypt 153-183 with CipherType.None on a plaintext of n bytes
AeadManagerEncrypt(n) == [prefix |-> LengthPrefix(n), payloadLen |-> n]

\* AeadManager.decrypt 185-219 with CipherType.None: the plaintext, or a throw
AeadManagerDecrypt(data) ==
    IF Len(data) < 2 THEN [ok |-> FALSE, plaintext |-> <<>>]
    ELSE IF Len(data) < 2 + FrameLen(data) THEN [ok |-> FALSE, plaintext |-> <<>>]
    ELSE [ok |-> TRUE, plaintext |-> SubSeq(data, 3, 2 + FrameLen(data))]

\* the 'message' listener 374-385 on a message whose unmasked bytes are the
\* next k bytes of the client's stream
WsMessage(k) ==
    /\ wsConn.state = "open"
    /\ wsFed + k <= Len(WsClientStream)
    /\ LET r == AeadManagerDecrypt(SubSeq(WsClientStream, wsFed + 1, wsFed + k))
       IN  /\ wsWritten' = IF r.ok THEN Append(wsWritten, r.plaintext) ELSE wsWritten
           /\ wsConn' = IF r.ok THEN wsConn ELSE WsClosed(1011, "Processing error")
    /\ wsFed' = wsFed + k
    /\ UNCHANGED <<wsFrames, notWsVars>>

\* the reader loop 390-397: a chunk of n bytes is framed, masked and sent
WsUpstreamChunk(n) ==
    /\ wsConn.state = "open"
    /\ Len(wsFrames) < MaxWsChunks
    /\ wsFrames' = Append(wsFrames, AeadManagerEncrypt(n))
    /\ UNCHANGED <<wsConn, wsFed, wsWritten, notWsVars>>

\* the reader loop 393: the upstream is done
WsUpstreamEnd ==
    /\ wsConn.state = "open"
    /\ wsConn' = WsClosed(1000, "Upstream closed")
    /\ UNCHANGED <<wsFed, wsWritten, wsFrames, notWsVars>>

WsNext ==
    \/ \E k \in 1 .. Len(WsClientStream) : WsMessage(k)
    \/ \E n \in WsChunkSizes : WsUpstreamChunk(n)
    \/ WsUpstreamEnd

\* C22: the 2-byte prefix of every frame the sender builds is the exact
\* number of payload bytes behind it (so that number is at most 65535, and
\* no longer payload goes out under its length modulo 65536).
C22_PrefixIsPayloadLength ==
    \A i \in 1 .. Len(wsFrames) : FrameLen(wsFrames[i].prefix) = wsFrames[i].payloadLen

\* C25: a message that ends inside a frame does not close the connection:
\* the tunnel is never closed with "Processing error" while the client sends
\* well-formed frames, and once the whole stream has arrived over an open
\* tunnel every frame of it has been written upstream.
C25_PartialFrameBuffered ==
    /\ wsConn.reason # "Processing error"
    /\ (wsConn.state = "open" /\ wsFed = Len(WsClientStream))
           => wsWritten = <<<<5, 6>>, <<7>>>>

\* ---- two stream requests on one session ----------------------------------
\* handleStream 163-186 for the second request, from the loop head to the
\* next suspension
Stream2Loop(token, s, start, out) ==
    IF s.closed \/ Remaining(start) <= 0
    THEN /\ stream2' = [pc |-> "closed", token |-> token, start |-> start, waiter |-> 0,
                        out |-> out, why |-> IF s.closed THEN "closed" ELSE "budget"]
         /\ session' = [session EXCEPT ![token] = s]
         /\ UNCHANGED <<timers, invoked, delivered>>
    ELSE LET w == Len(invoked) + 1
         IN  /\ stream2' = [pc |-> "waiting", token |-> token, start |-> start,
                            waiter |-> w, out |-> out \o s.pullBuffer, why |-> ""]
             /\ delivered' = delivered \o s.pullBuffer
             /\ session' = [session EXCEPT
                               ![token] = [s EXCEPT !.pullBuffer = <<>>, !.dataNotify = w]]
             /\ invoked' = Append(invoked, 0)
             /\ timers' = timers \cup
                            {[waiter |-> w, token |-> token, at |-> now + waitTime(start)]}

\* handleStream 149-193 up to its first suspension, for a request that
\* arrives while another may be suspended on the session
HandleStream2(token) ==
    /\ Quiescent
    /\ stream2.pc \in {"none", "closed"}
    /\ status' = IF NotFound(token) THEN 404 ELSE 200
    /\ IF NotFound(token)
       THEN /\ session' = AfterGet(token)
            /\ UNCHANGED <<stream2, timers, invoked, delivered>>
       ELSE Stream2Loop(token, Touched(session[token]), now, <<>>)
    /\ UNCHANGED <<sessions, issued, stream, now, produced, upstreamOut, upload, uploaded,
                   closedTokens, failedTokens, notStreamVars>>

\* handleStream 179-186: the continuation of the second request
Stream2Resume ==
    /\ Stream2Ready
    /\ Stream2Loop(stream2.token, session[stream2.token], stream2.start,
                   Heartbeat(session[stream2.token], stream2.out))
    /\ UNCHANGED <<sessions, issued, stream, now, produced, upstreamOut, upload, uploaded,
                   status, closedTokens, failedTokens, notStreamVars>>

\* the client holds two long polls on its session while the upstream sends
WaitersNext ==
    \/ HandleSession
    \/ \E token \in SessionIds : HandleStream(token)
    \/ \E token \in SessionIds : HandleStream2(token)
    \/ StreamResume
    \/ Stream2Resume
    \/ WaiterTimeout
    \/ \E token \in SessionIds : UpstreamData(token)
    \/ \E d \in TickSteps : Tick(d)

\* a stream request is suspended in waitForData and its `done` has not run
Suspended(st) == st.pc = "waiting" /\ invoked[st.waiter] = 0

\* the timer of the request's waiter is not due yet
TimerAhead(st) == \E tm \in timers : tm.waiter = st.waiter /\ tm.at > now

\* C27: whenever a stream request is suspended on a session with its timer
\* still ahead and no continuation is pending, the session's waiter slot
\* holds the waiter of a suspended request, so the next notifyData wakes
\* one of them at once.
C27_SlotHeldWhileSuspended ==
    \A st \in {stream, stream2} :
        (Quiescent /\ Suspended(st) /\ TimerAhead(st))
        => \E other \in {stream, stream2} :
              /\ Suspended(other)
              /\ other.token = st.token
              /\ session[st.token].dataNotify = other.waiter

(***************************************************************************)
(* The WASM instance behind the poll handlers: the bump allocator and the  *)
(* session slots of main.go, and the calls handleSession and               *)
(* SudokuAEAD.encrypt make on them.  A chunk read from upstream is given   *)
(* by its length.                                                          *)
(***************************************************************************)
arenaSize == 1048576
heapBase == 524288

MaxArenaChunks == 5     \* chunks read from upstream while the arena fills
MaxBacklog == 65        \* chunks read from upstream while the queue grows

\* byte lengths of env.SUDOKU_KEY and of the chunks reader.read returns
KeyLens == {32}
ArenaChunkSizes == {1024, 65536}
BacklogChunkSizes == {1}

WasmInit ==
    /\ arenaPtr = heapBase
    /\ sessionUsed = {}
    /\ aeadOf = [t \in {} |-> 0]
    /\ fate = <<>>
    /\ mallocNull = FALSE

\* malloc 98-114 at bump pointer p: the pointer returned and the new arenaPtr
malloc(p, size) ==
    LET alignedSize == ((size + 7) \div 8) * 8
    IN  IF size = 0 THEN [ptr |-> 0, arenaPtr |-> p]
        ELSE IF p + alignedSize > arenaSize THEN [ptr |-> 0, arenaPtr |-> p]
        ELSE [ptr |-> p, arenaPtr |-> p + alignedSize]

\* free 116-121: arenaPtr after the call
free(p, ptr) == p

\* initSession 129-196: the id returned
initSession(used, keyLen) ==
    IF keyLen > 32 THEN -2
    ELSE IF \A i \in 0 .. maxSessions - 1 : i \in used THEN -1
    ELSE CHOOSE i \in 0 .. maxSessions - 1 :
            i \notin used /\ \A j \in 0 .. i - 1 : j \in used

\* closeSession 200-220: the slots in use after the call
closeSession(used, id) == IF id < 0 \/ id >= maxSessions THEN used ELSE used \ {id}

\* aeadEncrypt 822-856: the number of bytes written at outPtr
aeadEncryptLen(used, id, cipher, plaintextLen) ==
    IF id \notin used \/ plaintextLen = 0 THEN 0
    ELSE IF cipher = CipherNone THEN plaintextLen
    ELSE IF cipher = CipherChaCha20Poly THEN plaintextLen + poly1305TagSize
    ELSE 0

\* SudokuAEAD.encrypt 43-80 on a chunk of n bytes: whether a frame comes
\* back (null otherwise), the bump pointer afterwards, and whether one of
\* its arenaMalloc calls returned 0
EncryptChunk(p, used, aead, n) ==
    LET inBuf == malloc(p, n)
        outBuf == malloc(inBuf.arenaPtr, n + 64)
        ciphertextLen == aeadEncryptLen(used, aead.sessionId, aead.cipher, n)
        freed == free(free(outBuf.arenaPtr, inBuf.ptr), outBuf.ptr)
        maskBuf == malloc(freed, ciphertextLen)
    IN  IF inBuf.ptr = 0 \/ outBuf.ptr = 0
        THEN [frame |-> FALSE, arenaPtr |-> outBuf.arenaPtr, null |-> TRUE]
        ELSE IF ciphertextLen = 0
        THEN [frame |-> FALSE, arenaPtr |-> freed, null |-> FALSE]
        ELSE IF maskBuf.ptr = 0
        THEN [frame |-> FALSE, arenaPtr |-> maskBuf.arenaPtr, null |-> TRUE]
        ELSE [frame |-> TRUE, arenaPtr |-> free(maskBuf.arenaPtr, maskBuf.ptr),
              null |-> FALSE]

\* handleSession 31-117 with the WASM calls it makes
HandleSessionWasm(cipher, keyLen, connects) ==
    /\ Quiescent
    /\ \E id \in SessionIds \ issued :
        LET keyBuf == malloc(arenaPtr, keyLen)
            sessionId == initSession(sessionUsed, keyLen)
        IN  /\ arenaPtr' = keyBuf.arenaPtr
            /\ mallocNull' = (mallocNull \/ keyBuf.ptr = 0)
            /\ IF keyBuf.ptr = 0 \/ sessionId < 0
               THEN /\ status' = 500
                    /\ UNCHANGED <<issued, sessions, session, sessionUsed, aeadOf>>
               ELSE /\ issued' = issued \cup {id}
                    /\ sessions' = IF connects THEN sessions \cup {id} ELSE sessions
                    /\ session' = [t \in issued \cup {id} |->
                                      IF t # id THEN session[t]
                                      ELSE IF connects THEN Connected(createSession(id))
                                      ELSE deleteSession(createSession(id))]
                    /\ aeadOf' = [t \in issued \cup {id} |->
                                     IF t # id THEN aeadOf[t]
                                     ELSE [sessionId |-> sessionId, cipher |-> cipher]]
                    /\ sessionUsed' = IF connects
                                      THEN sessionUsed \cup {sessionId}
                                      ELSE closeSession(sessionUsed \cup {sessionId}, sessionId)
                    /\ status' = IF connects THEN 200 ELSE 502
    /\ UNCHANGED <<stream, timers, invoked, now, produced, delivered, upstreamOut,
                   upload, uploaded, closedTokens, failedTokens, fate, notWasmVars>>

\* handleUpstreamRead 449-461: a chunk of n bytes arrives and is handed to
\* session.aead.encrypt; the frame, if one comes back, goes to notifyData
UpstreamChunk(token, n, cap) ==
    /\ Quiescent
    /\ token \in issued
    /\ session[token].reader = "reading"
    /\ session[token].upstreamSocket = "open"
    /\ Len(fate) < cap
    /\ LET r == EncryptChunk(arenaPtr, sessionUsed, aeadOf[token], n)
       IN  /\ arenaPtr' = r.arenaPtr
           /\ mallocNull' = (mallocNull \/ r.null)
           /\ fate' = Append(fate, IF r.frame THEN "enqueued" ELSE "dropped")
           /\ IF r.frame
              THEN /\ produced' = produced + 1
                   /\ session' = [session EXCEPT ![token] = notifyData(@, produced + 1)]
                   /\ Wake(NotifyTarget(session[token]))
              ELSE UNCHANGED <<produced, session, timers, invoked, stream>>
    /\ UNCHANGED <<sessions, issued, now, delivered, upstreamOut, upload, uploaded,
                   status, closedTokens, failedTokens, sessionUsed, aeadOf, notWasmVars>>

\* a poll session whose upstream sends chunks large and small until it ends
\* or the client closes
ArenaNext ==
    \/ \E cipher \in CipherTypes, keyLen \in KeyLens, connects \in BOOLEAN :
          HandleSessionWasm(cipher, keyLen, connects)
    \/ \E token \in SessionIds, n \in ArenaChunkSizes :
          UpstreamChunk(token, n, MaxArenaChunks)
    \/ \E token \in SessionIds : UpstreamEnd(token)
    \/ \E token \in SessionIds : HandleStream(token)
    \/ StreamResume
    \/ \E token \in Tokens : HandleClose(token)

\* a poll session whose upstream sends faster than the client polls
BacklogNext ==
    \/ \E cipher \in CipherTypes, keyLen \in KeyLens, connects \in BOOLEAN :
          HandleSessionWasm(cipher, keyLen, connects)
    \/ \E token \in SessionIds, n \in BacklogChunkSizes :
          UpstreamChunk(token, n, MaxBacklog)
    \/ \E token \in SessionIds : HandleStream(token)
    \/ StreamResume

\* C21: the ready-to-read queue of a session never holds more than the
\* suggested 64 frames, however many chunks the upstream delivers between
\* two polls.
C21_QueueBounded ==
    \A t \in issued : Len(session[t].pullBuffer) <= 64

\* C28: while a session is open, no chunk read from its upstream has been
\* dropped: each has been handed to notifyData.
C28_NoChunkDropped ==
    \A t \in issued :
        ~session[t].closed => \A i \in 1 .. Len(fate) : fate[i] = "enqueued"

\* C29: no malloc call for a positive size returns 0 on an instance whose
\* callers release every buffer they obtained for a frame.
C29_MallocNeverFails ==
    ~mallocNull

\* C30: the WASM session slot of every poll session that has ended (closed by
\* the client, or by upstream EOF or error) is free again.
C30_EndedSessionSlotReleased ==
    \A t \in issued : session[t].closed => aeadOf[t].sessionId \notin sessionUsed

\* C8: no frame is dropped across a wake-up: every frame handed to notifyData
\* is, exactly once, either still queued in pullBuffer or written to a stream
\* response, and the stream handler is never left suspended while a frame is
\* queued, whether the frame came before the waiter registered, while it was
\* suspended, or between a wake-up and the next drain.
C8_NoDataDropped ==
    \A t \in issued :
        /\ Len(delivered) + Len(session[t].pullBuffer) = produced
        /\ \A k \in 1 .. produced :
              Cardinality({i \in 1 .. Len(delivered) : delivered[i] = k})
              + Cardinality({i \in 1 .. Len(session[t].pullBuffer) :
                                session[t].pullBuffer[i] = k}) = 1
        /\ (stream.pc = "waiting" /\ stream.token = t) => session[t].pullBuffer = <<>>

\* frame 1 queued before the stream call, a keepalive, then frame 2 handed
\* over while the handler was suspended
C8_Witness ==
    /\ produced = 2
    /\ delivered = <<1, 2>>
    /\ stream.pc = "waiting"
    /\ stream.out = <<1, NL, 2>>

\* C9: the `done` of a waiter registered by waitForData runs at most once,
\* whichever of notifyData, its timer, deleteSession or the end of the
\* upstream reader reaches it first.
C9_WaiterInvokedAtMostOnce ==
    \A w \in 1 .. Len(invoked) : invoked[w] <= 1

\* three waiters have run once each, the last one woken by the close of the session
C9_Witness ==
    /\ Len(invoked) >= 3
    /\ \A w \in 1 .. 3 : invoked[w] = 1
    /\ stream.pc = "closed"
    /\ stream.why = "closed"
    /\ closedTokens # {}

\* C10: a stream, fin or close request carrying the token of a session whose
\* last activity is older than the idle timeout is answered not-found.
C10_IdleUnreachable ==
    [][\A token \in Tokens :
          (Stale(token) /\ (HandleStream(token) \/ HandleFin(token) \/ HandleClose(token)))
              => status' = 404]_vars

\* C11: once a close request has been served for a token, the registry no
\* longer holds it, and every later stream, upload, fin or close request that
\* carries it is answered not-found and starts no stream and no upload.
C11_ClosedStaysClosed ==
    [][\A token \in Tokens :
          /\ token \in closedTokens' => ~Registered(token)'
          /\ (/\ token \in closedTokens
              /\ \/ HandleStream(token)
                 \/ HandleFin(token)
                 \/ HandleClose(token)
                 \/ \E u \in UploadIds : HandleUpload(u, token))
             => /\ status' = 404
                /\ stream' = stream
                /\ upload' = upload
                /\ sessions' = sessions]_vars

\* the session was closed while a stream was suspended and an upload was
\* being read; a request after the close has been answered 404
C11_Witness ==
    /\ closedTokens = {"t1"}
    /\ ~Registered("t1")
    /\ stream.why = "closed"
    /\ \A u \in UploadIds : upload[u].pc = "idle"
    /\ uploaded # <<>>
    /\ status = 404

\* C12: a close request served while a stream request of the session is
\* suspended resumes that request and cancels its timer; the resumed handler
\* finds the session closed and closes its response at the same instant,
\* writing nothing more, and no request stays suspended on a closed session.
C12_CloseWakesWaiter ==
    [][/\ \A token \in Tokens :
            (/\ HandleClose(token)
             /\ ~NotFound(token)
             /\ stream.pc = "waiting"
             /\ stream.token = token)
            => /\ stream'.pc = "resumed"
               /\ \A tm \in timers' : tm.waiter # stream.waiter
       /\ (StreamResume /\ session[stream.token].closed)
            => /\ stream'.pc = "closed"
               /\ stream'.why = "closed"
               /\ stream'.out = stream.out
               /\ now' = now
       /\ stream'.pc = "waiting" => ~session'[stream'.token].closed]_vars

\* a stream entered at time 0 was closed by a close request served 3 s later,
\* before its first heartbeat was due
C12_Witness ==
    /\ stream.pc = "closed"
    /\ stream.why = "closed"
    /\ closedTokens = {stream.token}
    /\ stream.out = <<>>
    /\ now = stream.start + 3000
    /\ timers = {}

\* C13: once a frame of an upload has failed decryption or parsing, the
\* session is closed and its token is no longer in the registry, so that a
\* request carrying the token is answered not-found.
C13_FailedFrameClosesSession ==
    \A token \in failedTokens : ~Registered(token) /\ session[token].closed

RECURSIVE FramesIn(_)
FramesIn(bytes) ==
    IF Len(bytes) < 2 \/ Len(bytes) < 2 + bytes[1] * 256 + bytes[2]
    THEN <<>>
    ELSE (IF decrypt(SubSeq(bytes, 1, 2 + bytes[1] * 256 + bytes[2])) = <<>>
          THEN <<>>
          ELSE <<decrypt(SubSeq(bytes, 1, 2 + bytes[1] * 256 + bytes[2]))>>)
         \o FramesIn(SubSeq(bytes, 3 + bytes[1] * 256 + bytes[2], Len(bytes)))

C16_ClientOrderFifo ==
    /\ \A t \in issued :
          delivered \o session[t].pullBuffer = [k \in 1 .. produced |-> k]
    /\ \A i, j \in 1 .. Len(stream.out) :
          (i < j /\ stream.out[i] # NL /\ stream.out[j] # NL)
              => stream.out[i] < stream.out[j]

\* two frames were queued one after the other before the stream request
\* came, and its first drain wrote both
C16_Witness ==
    /\ produced = 2
    /\ stream.out = <<1, 2>>
    /\ delivered = <<1, 2>>
    /\ stream.start = now

\* C17: a stream response does not stay open past 25 s after the handler was
\* entered: while the handler is suspended its timer is due no later than
\* the end of the budget, however often data or a heartbeat has woken it,
\* and the handler resumed with the budget used up closes the response.
C17_StreamClosedAtBudget ==
    [][/\ stream'.pc \in {"waiting", "resumed"}
            => now' - stream'.start <= LONG_POLL_TIMEOUT_MS
       /\ stream'.pc = "waiting"
            => \E tm \in timers' :
                  /\ tm.waiter = stream'.waiter
                  /\ tm.at <= stream'.start + LONG_POLL_TIMEOUT_MS
       /\ (StreamResume /\ now - stream.start >= LONG_POLL_TIMEOUT_MS)
            => stream'.pc = "closed"]_vars

\* the response was closed 25 s after entry, after heartbeats and a frame
\* that arrived between two heartbeats
C17_Witness ==
    /\ stream.pc = "closed"
    /\ stream.why = "budget"
    /\ now = stream.start + LONG_POLL_TIMEOUT_MS
    /\ \E i, j \in 1 .. Len(stream.out) : stream.out[i] = NL /\ stream.out[j] = 1
    /\ Len(invoked) >= 6

\* C18: a stream handler suspended with at least 5 s of budget left has its
\* timer set 5 s ahead; when the timer fires the handler resumes, and a
\* handler that resumes on an open session with an empty queue writes one
\* newline and nothing else, and suspends again with a new waiter if budget
\* is left.
C18_HeartbeatEveryInterval ==
    [][/\ (/\ HandleStream(stream'.token) \/ StreamResume
           /\ stream'.pc = "waiting"
           /\ Remaining(stream'.start) >= HEARTBEAT_INTERVAL_MS)
            => \E tm \in timers' :
                  /\ tm.waiter = stream'.waiter
                  /\ tm.at = now + HEARTBEAT_INTERVAL_MS
       /\ (/\ WaiterTimeout
           /\ stream.pc = "waiting"
           /\ \E tm \in timers : tm.waiter = stream.waiter /\ tm.at <= now)
            => stream'.pc = "resumed"
       /\ (/\ StreamResume
           /\ session[stream.token].pullBuffer = <<>>
           /\ ~session[stream.token].closed)
            => /\ stream'.out = Append(stream.out, NL)
               /\ Remaining(stream.start) > 0
                    => /\ stream'.pc = "waiting"
                       /\ stream'.waiter # stream.waiter
                       /\ session'[stream.token].dataNotify = stream'.waiter]_vars

\* 10 s into a stream on which no data arrived: two newlines written, the
\* handler suspended for the third time
C18_Witness ==
    /\ stream.pc = "waiting"
    /\ stream.out = <<NL, NL>>
    /\ now = stream.start + 2 * HEARTBEAT_INTERVAL_MS
    /\ \E tm \in timers : tm.waiter = stream.waiter /\ tm.at = now + HEARTBEAT_INTERVAL_MS

\* C19: the handler that closes its response because the 25 s budget is used
\* up leaves the session as it is, registered and not closed, and a stream
\* request made with the token after that, the session not closed by anyone
\* in between and idle for less than 300 s, is answered 200 and polls again.
C19_TimeoutKeepsSession ==
    [][/\ (StreamResume /\ stream'.why = "budget")
            => /\ session' = session
               /\ Registered(stream.token)'
               /\ ~session'[stream.token].closed
       /\ \A token \in Tokens :
            (/\ HandleStream(token)
             /\ stream.why = "budget"
             /\ stream.token = token
             /\ token \notin closedTokens
             /\ session[token].reader # "ended"
             /\ now - session[token].lastActivity < maxAgeMs)
            => /\ status' = 200
               /\ stream'.pc = "waiting"
               /\ stream'.start = now]_vars

\* the first stream ran from 0 to 25 s and used five waiters; the stream
\* request that followed its close is suspended
C19_Witness ==
    /\ stream.pc = "waiting"
    /\ stream.start = LONG_POLL_TIMEOUT_MS
    /\ status = 200
    /\ produced = 0
    /\ ~session[stream.token].closed
    /\ Len(invoked) >= 6
    /\ \A w \in 1 .. 5 : invoked[w] = 1

\* C26: a session whose upstream reader has ended (EOF or a read error) and
\* which the client has not closed stays reachable to stream while its
\* pull queue still holds frames: handleStream does not answer 404 for it.
C26_QueuedFramesStayReachable ==
    \A t \in issued :
        (session[t].reader = "ended" /\ t \notin closedTokens
            /\ session[t].pullBuffer # <<>>)
        => ~NotFound(t)

(***************************************************************************)
(* packHintsToKey on the four hints of a quadruple in each of the 24       *)
(* orders of perm4 in which mask emits them                                *)
(***************************************************************************)
\* hint bytes of a quadruple: 0x40 | (val << 4) | pos, and the two specials
PackBytes == {10, 64, 79, 113, 127}

PackIdle ==
    /\ packHints = <<>>
    /\ packKey = 0
    /\ packPc = "idle"

PackInit ==
    /\ packHints \in [1 .. 4 -> PackBytes]
    /\ packKey = 0
    /\ packPc = "idle"

\* mask 624-642 emits hints[perm[j]] for j = 0..3; unmask 704-716 collects
\* them in that order and packs them
PackCall(permIdx) ==
    /\ packPc = "idle"
    /\ packKey' = packHintsToKey([j \in 1 .. 4 |-> packHints[perm4[permIdx][j] + 1]])
    /\ packPc' = "packed"
    /\ UNCHANGED <<packHints, notPackVars>>

PackNext == \E permIdx \in 1 .. 24 : PackCall(permIdx)

\* C40: the key packed from a quadruple's hints in the order mask emitted
\* them is the key packed from them in table order, for each of the 24
\* permutations.
C40_PackOrderIndependent ==
    (packPc = "packed") => packKey = packHintsToKey(packHints)

\* four distinct hints were packed to a key other than their plain
\* big-endian packing in table order
C40_Witness ==
    /\ packPc = "packed"
    /\ Cardinality({packHints[j] : j \in 1 .. 4}) = 4
    /\ packHints[1] > packHints[2]
    /\ packKey = packHintsToKey(packHints)
    /\ packKey # packHints[1] * 16777216 + packHints[2] * 65536
                    + packHints[3] * 256 + packHints[4]

(***************************************************************************)
(* chacha20GenerateKey called on a cipher whose counter holds any value    *)
(***************************************************************************)
MaxKeyCounter == 24

KeyNonces ==
    { Bytes([i \in 1 .. 12 |-> 0]),
      Bytes([i \in 1 .. 12 |-> 7 * i]) }

KeyIdle ==
    /\ kgCipher = <<>>
    /\ savedCounter = <<0, 0>>
    /\ kgOut = <<>>
    /\ kgPc = "idle"

\* a cipher from chacha20Init whose counter a caller then set
KeyInit ==
    /\ \E key \in AeadKeys, nonce \in KeyNonces, n \in 0 .. MaxKeyCounter :
           kgCipher = chacha20SetCounter(chacha20Init(key, nonce), <<0, n>>)
    /\ savedCounter = <<0, 0>>
    /\ kgOut = <<>>
    /\ kgPc = "idle"

\* chacha20GenerateKey(&c, &polyKey)
KeyDerive ==
    /\ kgPc = "idle"
    /\ savedCounter' = kgCipher.counter
    /\ kgOut' = chacha20GenerateKey(kgCipher).key
    /\ kgCipher' = chacha20GenerateKey(kgCipher).cipher
    /\ kgPc' = "derived"
    /\ UNCHANGED notKeyVars

KeyNext == KeyDerive

MaxH2 == 4

\* 2^64 - 6 and 2^64 - 5
U64BelowP == <<250, 255, 255, 255, 255, 255, 255, 255>>
U64AtP == <<251, 255, 255, 255, 255, 255, 255, 255>>

FinWords0 == {U64Zero, U64Of(1), U64BelowP, U64AtP, U64Max}
FinWords1 == {U64Zero, U64Max}

FinIdle ==
    /\ finH = <<>>
    /\ finS = <<>>
    /\ finTag = <<>>
    /\ finPc = "idle"

FinInit ==
    /\ finH \in {<<h0, h1, U64Of(h2)>> : h0 \in FinWords0, h1 \in FinWords1, h2 \in 0 .. MaxH2}
    /\ finS \in {<<s0, s1>> : s0 \in {U64Zero, U64AtP}, s1 \in {U64Of(7)}}
    /\ finTag = <<>>
    /\ finPc = "idle"

\* poly1305Finalize(&ctx, &tag) with ctx.offset = 0
FinCall ==
    /\ finPc = "idle"
    /\ finTag' = poly1305Finalize([h |-> finH, s |-> finS, buffer |-> <<>>])
    /\ finPc' = "finalized"
    /\ UNCHANGED <<finH, finS, notFinVars>>

FinNext == FinCall

\* h >= 2^130 - 5 for an accumulator below 2^131
AtLeastP(h) ==
    \/ h[3][1] >= 4
    \/ h[3][1] = 3 /\ h[2] = U64Max /\ h[1][1] >= 251 /\ SubSeq(h[1], 2, 8) = SubSeq(U64Max, 2, 8)

\* the low 128 bits of x + y, each given as its two low words
Sum128(x, y) ==
    LET lo == Add64(x[1], y[1], 0)
    IN  <<lo.sum, Add64(x[2], y[2], lo.carry).sum>>

\* the 16 little-endian bytes of two words
TagBytes(w) == w[1] \o w[2]

\* C38: the tag is g = h + 5 (modulo 2^130) plus s when h >= 2^130 - 5,
\* and h plus s otherwise, modulo 2^128.
C38_FinalizeSelects ==
    (finPc = "finalized")
        => finTag = TagBytes(Sum128(IF AtLeastP(finH)
                                    THEN Sum128(finH, <<U64Of(5), U64Zero>>)
                                    ELSE finH,
                                    finS))

(***************************************************************************)
(* initCodecTablesWithKey called again on the tables init() filled         *)
(* (WasmInstance.initCodecTables, index.ts; handleWebSocket calls it once  *)
(* per instance, the export itself takes any number of calls)              *)
(***************************************************************************)
MaxInits == 3

\* the keys of the sessions explored and one whose shuffle puts the grid of
\* byte 1 under the default key at byte 0
ReinitKeys == CodecKeys \cup {<<0, 18, 0, 0, 0, 0, 0, 0>>}

ReinitIdle ==
    /\ tblInits = 0
    /\ tblKey = <<>>

ReinitInit == ReinitIdle

\* initCodecTablesWithKey(keyPtr, keyLen): the rows of the shuffle of key
\* replace the encode table; their keys are inserted into the decode table
\* as it stands
ReInit(key) ==
    /\ tblInits < MaxInits
    /\ encodeTable' = [b \in ByteVals |-> encodeRowFor(gridOrderOf(key), b)]
    /\ decodeTable' = InsertBytes(decodeTable, encodeTable', 0)
    /\ paddingPool' = SelectSeq([i \in 1 .. 32 |-> 32 + (i - 1)],
                                LAMBDA b : BitAnd(b, 64) # 64)
    /\ tblInits' = tblInits + 1
    /\ tblKey' = key
    /\ UNCHANGED notTableVars

ReinitNext == \E key \in ReinitKeys : ReInit(key)

\* C31: after every initCodecTablesWithKey, at startup or later, each
\* quadruple of the encode table for byte b looks up to b in the decode
\* table.
C31_TablesAgree ==
    \A b \in DOMAIN encodeTable : \A k \in 1 .. Len(encodeTable[b]) :
        decodeTableLookup(decodeTable, packHintsToKey(encodeTable[b][k]))
            = [val |-> b, found |-> TRUE]

(***************************************************************************)
(* init() -> initCodecTables() -> initCodecTablesWithKey(0, 0) with all    *)
(* byte values.  decodeTableInsert probes hash, hash+1, ... modulo the     *)
(* table size, so it visits every slot and returns iff some slot is empty: *)
(* only the number of occupied slots decides, and that is what is kept.    *)
(***************************************************************************)
numByteVals == 256

FillIdle ==
    /\ fillByte = 0
    /\ fillUsed = 0
    /\ fillPc = "idle"

\* the instance is being instantiated: init() runs on zeroed tables
FillInit ==
    /\ fillByte = 0
    /\ fillUsed = 0
    /\ fillPc = "init"

\* one iteration of "for byteVal := 0; byteVal < 256; byteVal++": the row
\* of byteVal is built and each quadruple inserted; an insert that finds
\* the table full never returns
FillRow ==
    /\ fillPc = "init"
    /\ LET count == Len(encodeRow(fillByte))
       IN  IF fillUsed + count > decodeTableSize
           THEN /\ fillUsed' = decodeTableSize
                /\ fillPc' = "spinning"
                /\ fillByte' = fillByte
           ELSE /\ fillUsed' = fillUsed + count
                /\ fillByte' = fillByte + 1
                /\ fillPc' = IF fillByte + 1 = numByteVals THEN "done" ELSE "init"
    /\ UNCHANGED notFillVars

FillNext == FillRow

\* C32: the decode table always keeps an empty slot, so decodeTableInsert
\* (and a lookup of an absent key) always returns.
C32_ProbesTerminate ==
    /\ fillUsed < decodeTableSize
    /\ fillPc # "spinning"

(***************************************************************************)
(* mask on frames of the sizes the send path produces, by lengths.  Every  *)
(* write of mask is "if outPos < maxOut { arena[out+outPos] = ..;          *)
(* outPos++ }", so the bytes it writes are the first maxOut of the bytes   *)
(* it would write without the limit: four hints per input byte (every byte *)
(* has encodeTableCount > 0 after init()) and the padding bytes the RNG    *)
(* asks for.  Padding is asked for at 30 % of the 5N + 1 opportunities on  *)
(* average; runs above two per input byte are left out.                    *)
(***************************************************************************)
\* inLen of the frames: the 2-byte prefix and the ciphertext of a chunk
FrameSizes == {1, 2, 16, 300, 1024, 4096, 16384, 21845, 32767, 32768, 32769, 40000, 65535, 65537}

PadCounts(n) == {0, 1, n, 2 * n}

LenIdle ==
    /\ mlIn = 0
    /\ mlPads = 0
    /\ mlOut = 0
    /\ mlPc = "idle"

LenInit ==
    /\ mlIn \in FrameSizes
    /\ mlPads \in PadCounts(mlIn)
    /\ mlOut = 0
    /\ mlPc = "idle"

\* mask(id, inPtr, inLen): currentOutLen; trail is the padding byte after
\* the last hint
MaskLength(trail) ==
    /\ mlPc = "idle"
    /\ LET maxOut == Min(mlIn * 6 + 32, outBufSize)
       IN  mlOut' = Min(4 * mlIn + mlPads + trail, maxOut)
    /\ mlPc' = "masked"
    /\ UNCHANGED <<mlIn, mlPads, notLenVars>>

LenNext == \E trail \in {0, 1} : MaskLength(trail)

\* C33: the output of mask holds the four hints of every input byte:
\* neither limit cuts the output before the last hint.
C33_MaskNeverTruncates ==
    (mlPc = "masked") => mlOut >= 4 * mlIn + mlPads

(***************************************************************************)
(* The poll endpoints with requests whose authenticator may be invalid     *)
(* (part_003).  isValid is what `await auth.verify(...)` returns; the      *)
(* router (part_004 93-109) hands every request to its handler unchecked.  *)
(***************************************************************************)
MaxRequests == 3

ReqIdle ==
    /\ reqValid = TRUE
    /\ reqCount = 0

\* `return new Response('Unauthorized', { status: 401 })`
Unauthorized ==
    /\ Quiescent
    /\ status' = 401
    /\ UNCHANGED <<sessions, issued, session, stream, timers, invoked, now, produced,
                   delivered, upstreamOut, upload, uploaded, closedTokens, failedTokens>>

Requested(isValid) ==
    /\ reqCount < MaxRequests
    /\ reqValid' = isValid
    /\ reqCount' = reqCount + 1
    /\ UNCHANGED notAuthVars

\* handleStream 128-193: auth.verify at 142-147, getSession after it
AuthStream(token, isValid) ==
    /\ Requested(isValid)
    /\ IF isValid THEN StreamRequest(token) ELSE Unauthorized

\* handleUpload 208-359: auth.verify at 224-229, getSession after it
AuthUpload(u, token, isValid) ==
    /\ Requested(isValid)
    /\ IF isValid THEN UploadRequest(u, token) ELSE upload[u].pc = "idle" /\ Unauthorized

\* handleFin 372-400: method, token, getSession; no auth.verify
AuthFin(token, isValid) ==
    /\ Requested(isValid)
    /\ FinRequest(token)

\* handleClose 405-437: method, token, getSession; no auth.verify
AuthClose(token, isValid) ==
    /\ Requested(isValid)
    /\ CloseRequest(token)

AuthNext ==
    \/ HandleSession
    \/ \E token \in Tokens, isValid \in BOOLEAN : AuthStream(token, isValid)
    \/ StreamResume
    \/ \E token \in SessionIds : UpstreamData(token)
    \/ \E token \in SessionIds : UpstreamEnd(token)
    \/ \E token \in Tokens, isValid \in BOOLEAN : AuthFin(token, isValid)
    \/ \E token \in Tokens, isValid \in BOOLEAN : AuthClose(token, isValid)
    \/ \E u \in UploadIds, token \in Tokens, isValid \in BOOLEAN : AuthUpload(u, token, isValid)
    \/ \E u \in UploadIds, chunk \in UploadChunks : UploadBody(u, chunk)
    \/ \E u \in UploadIds : UploadResume(u)

\* C34: a request to stream, upload, fin or close whose authenticator is
\* not valid leaves every session and the registry as they were.
C34_AuthBeforeSession ==
    [][(reqCount' # reqCount /\ ~reqValid') => (session' = session /\ sessions' = sessions)]_vars

(***************************************************************************)
(* TunnelAuth: every handler runs `new TunnelAuth(env.SUDOKU_KEY)` and     *)
(* then `await auth.verify(...)`.  A step is one run of JavaScript between *)
(* two awaits; a promise resolves in a later step.  Keys are named: zero   *)
(* is new Uint8Array(32), derived is the SHA-256 digest.                   *)
(***************************************************************************)
MaxAuthReqs == 2

AuthReqs == 1 .. MaxAuthReqs

AuthImpls == {"src/auth.ts", "part_008"}

\* what the request carries: nothing, a token with a timestamp outside the
\* skew, a token signed with the derived key, one signed with the zero key
TokenKinds == {"none", "stale", "genuine", "forged"}

NoAuthReq == [pc |-> "none", key |-> "zero", digest |-> "none", used |-> "none",
              token |-> "none", result |-> FALSE]

TkIdle ==
    /\ tkImpl = "part_008"
    /\ tkReq = [r \in AuthReqs |-> NoAuthReq]

TkInit ==
    /\ tkImpl \in AuthImpls
    /\ tkReq = [r \in AuthReqs |-> NoAuthReq]

\* the handler up to the first await of verify: the constructor starts the
\* digest (src/auth.ts: this.key is 32 zero bytes and initKey is not
\* awaited; part_008: keyPromise), verify returns false on a missing or
\* stale token, else src/auth.ts goes on into sign and hands this.key to
\* crypto.subtle.importKey, part_008 awaits getKey()
VerifyCall(r, token) ==
    /\ tkReq[r].pc = "none"
    /\ tkReq' = [tkReq EXCEPT ![r] =
           IF token \in {"none", "stale"}
           THEN [pc |-> "done", key |-> "zero", digest |-> "pending", used |-> "none",
                 token |-> token, result |-> FALSE]
           ELSE IF tkImpl = "src/auth.ts"
           THEN [pc |-> "import", key |-> "zero", digest |-> "pending", used |-> "zero",
                 token |-> token, result |-> FALSE]
           ELSE [pc |-> "key", key |-> "zero", digest |-> "pending", used |-> "none",
                 token |-> token, result |-> FALSE]]
    /\ UNCHANGED <<tkImpl, notTkVars>>

\* crypto.subtle.digest resolves: initKey stores (src/auth.ts) or returns
\* (part_008) the hash; in part_008 a verify waiting in getKey() goes on
\* into sign(key, ...) and hands the key to importKey
DigestDone(r) ==
    /\ tkReq[r].digest = "pending"
    /\ tkReq' = [tkReq EXCEPT ![r] =
           IF tkImpl = "part_008" /\ @.pc = "key"
           THEN [@ EXCEPT !.digest = "done", !.key = "derived", !.used = "derived",
                          !.pc = "import"]
           ELSE [@ EXCEPT !.digest = "done", !.key = "derived"]]
    /\ UNCHANGED <<tkImpl, notTkVars>>

\* importKey resolves: crypto.subtle.sign('HMAC', cryptoKey, message)
ImportDone(r) ==
    /\ tkReq[r].pc = "import"
    /\ tkReq' = [tkReq EXCEPT ![r].pc = "hmac"]
    /\ UNCHANGED <<tkImpl, notTkVars>>

\* the signature arrives: the constant-time compare of verify
SignDone(r) ==
    /\ tkReq[r].pc = "hmac"
    /\ tkReq' = [tkReq EXCEPT ![r].pc = "done",
                              ![r].result =
                                  \/ (tkReq[r].token = "genuine" /\ tkReq[r].used = "derived")
                                  \/ (tkReq[r].token = "forged" /\ tkReq[r].used = "zero")]
    /\ UNCHANGED <<tkImpl, notTkVars>>

TkNext ==
    \/ \E r \in AuthReqs, token \in TokenKinds : VerifyCall(r, token)
    \/ \E r \in AuthReqs : DigestDone(r)
    \/ \E r \in AuthReqs : ImportDone(r)
    \/ \E r \in AuthReqs : SignDone(r)

\* C35: verify never hands the all-zero key to importKey: the expected
\* signature is always computed with the derived key.
C35_NeverZeroKey ==
    \A r \in AuthReqs : tkReq[r].used # "zero"

(***************************************************************************)
(* The message handler of handleWebSocket (index.ts 374-385) as the event  *)
(* loop runs it: message events are dispatched in arrival order, a handler *)
(* runs until it awaits a promise that is still pending, and the handlers  *)
(* waiting on settled promises go on before the next event is dispatched.  *)
(* AeadManager.decrypt awaits nothing for the ciphers none and ChaCha20    *)
(* (the WASM call is synchronous), so `await aead.decrypt` goes on in the  *)
(* same turn; for AES-128-GCM it awaits crypto.subtle.decrypt, whose       *)
(* operations run in parallel and settle in an order the platform chooses. *)
(***************************************************************************)
MaxMessages == 5

OrdIdle ==
    /\ ordCipher = CipherNone
    /\ ordArrived = 0
    /\ ordPending = {}
    /\ ordWritten = <<>>

OrdInit ==
    /\ ordCipher \in CipherTypes
    /\ ordArrived = 0
    /\ ordPending = {}
    /\ ordWritten = <<>>

\* a message event: unmask, then `await aead.decrypt(unmasked)`; without a
\* pending promise the handler goes on to upstreamWriter.write
OrdMessage ==
    /\ ordArrived < MaxMessages
    /\ ordArrived' = ordArrived + 1
    /\ IF ordCipher = CipherAES128GCM
       THEN /\ ordPending' = ordPending \cup {ordArrived + 1}
            /\ UNCHANGED ordWritten
       ELSE /\ ordWritten' = Append(ordWritten, ordArrived + 1)
            /\ UNCHANGED ordPending
    /\ UNCHANGED <<ordCipher, notOrdVars>>

\* crypto.subtle.decrypt of message k settles: the handler returns from
\* decrypt and calls upstreamWriter.write(plaintext)
OrdDecrypted(k) ==
    /\ k \in ordPending
    /\ ordPending' = ordPending \ {k}
    /\ ordWritten' = Append(ordWritten, k)
    /\ UNCHANGED <<ordCipher, ordArrived, notOrdVars>>

OrdNext ==
    \/ OrdMessage
    \/ \E k \in 1 .. MaxMessages : OrdDecrypted(k)

\* C36: the plaintexts are written upstream in the order their messages
\* arrived.
C36_WritesInArrivalOrder ==
    \A i, j \in 1 .. Len(ordWritten) : i < j => ordWritten[i] < ordWritten[j]

\* ---- fin: the half-close towards the upstream ----------------------------

\* fin has been answered with 200 on the session and nothing has ended it
HalfClosed(token) ==
    /\ Registered(token)
    /\ ~session[token].closed
    /\ session[token].upstreamWriter = "closed"
    /\ session[token].upstreamSocket = "open"
    /\ session[token].reader = "reading"

InitCodec == CodecInit /\ AeadIdle /\ OpenIdle /\ PollIdle /\ WsIdle /\ WasmInit /\ PackIdle /\ KeyIdle /\ FinIdle /\ ReinitIdle /\ FillIdle /\ LenIdle /\ ReqIdle /\ TkIdle /\ OrdIdle

SpecCodec == InitCodec /\ [][CodecNext]_vars

InitAead == CodecIdle /\ AeadInit /\ OpenIdle /\ PollIdle /\ WsIdle /\ WasmInit /\ PackIdle /\ KeyIdle /\ FinIdle /\ ReinitIdle /\ FillIdle /\ LenIdle /\ ReqIdle /\ TkIdle /\ OrdIdle

SpecAead == InitAead /\ [][AeadNext]_vars

InitOpen == CodecIdle /\ AeadIdle /\ OpenInit /\ PollIdle /\ WsIdle /\ WasmInit /\ PackIdle /\ KeyIdle /\ FinIdle /\ ReinitIdle /\ FillIdle /\ LenIdle /\ ReqIdle /\ TkIdle /\ OrdIdle

SpecOpen == InitOpen /\ [][OpenNext]_vars

InitPoll == CodecIdle /\ AeadIdle /\ OpenIdle /\ PollIdle /\ WsIdle /\ WasmInit /\ PackIdle /\ KeyIdle /\ FinIdle /\ ReinitIdle /\ FillIdle /\ LenIdle /\ ReqIdle /\ TkIdle /\ OrdIdle

SpecPoll == InitPoll /\ [][PollNext]_vars

SpecUpload == InitPoll /\ [][UploadNext]_vars

InitWs == CodecIdle /\ AeadIdle /\ OpenIdle /\ PollIdle /\ WsInit /\ WasmInit /\ PackIdle /\ KeyIdle /\ FinIdle /\ ReinitIdle /\ FillIdle /\ LenIdle /\ ReqIdle /\ TkIdle /\ OrdIdle

SpecWs == InitWs /\ [][WsNext]_vars

SpecWaiters == InitPoll /\ [][WaitersNext]_vars

SpecArena == InitPoll /\ [][ArenaNext]_vars

SpecBacklog == InitPoll /\ [][BacklogNext]_vars

InitPack == CodecIdle /\ AeadIdle /\ OpenIdle /\ PollIdle /\ WsIdle /\ WasmInit /\ PackInit /\ KeyIdle /\ FinIdle /\ ReinitIdle /\ FillIdle /\ LenIdle /\ ReqIdle /\ TkIdle /\ OrdIdle

SpecPack == InitPack /\ [][PackNext]_vars

InitKey == CodecIdle /\ AeadIdle /\ OpenIdle /\ PollIdle /\ WsIdle /\ WasmInit /\ PackIdle /\ KeyInit /\ FinIdle /\ ReinitIdle /\ FillIdle /\ LenIdle /\ ReqIdle /\ TkIdle /\ OrdIdle

SpecKey == InitKey /\ [][KeyNext]_vars

InitFin == CodecIdle /\ AeadIdle /\ OpenIdle /\ PollIdle /\ WsIdle /\ WasmInit /\ PackIdle /\ KeyIdle /\ FinInit /\ ReinitIdle /\ FillIdle /\ LenIdle /\ ReqIdle /\ TkIdle /\ OrdIdle

SpecFin == InitFin /\ [][FinNext]_vars

InitReinit == CodecInit /\ AeadIdle /\ OpenIdle /\ PollIdle /\ WsIdle /\ WasmInit /\ PackIdle /\ KeyIdle /\ FinIdle /\ ReinitInit /\ FillIdle /\ LenIdle /\ ReqIdle /\ TkIdle /\ OrdIdle

SpecReinit == InitReinit /\ [][ReinitNext]_vars

InitFill == CodecIdle /\ AeadIdle /\ OpenIdle /\ PollIdle /\ WsIdle /\ WasmInit /\ PackIdle /\ KeyIdle /\ FinIdle /\ ReinitIdle /\ FillInit /\ LenIdle /\ ReqIdle /\ TkIdle /\ OrdIdle

SpecFill == InitFill /\ [][FillNext]_vars

InitLen == CodecIdle /\ AeadIdle /\ OpenIdle /\ PollIdle /\ WsIdle /\ WasmInit /\ PackIdle /\ KeyIdle /\ FinIdle /\ ReinitIdle /\ FillIdle /\ LenInit /\ ReqIdle /\ TkIdle /\ OrdIdle

SpecLen == InitLen /\ [][LenNext]_vars

InitAuth == CodecIdle /\ AeadIdle /\ OpenIdle /\ PollIdle /\ WsIdle /\ WasmInit /\ PackIdle /\ KeyIdle /\ FinIdle /\ ReinitIdle /\ FillIdle /\ LenIdle /\ ReqIdle /\ TkIdle /\ OrdIdle

SpecAuth == InitAuth /\ [][AuthNext]_vars

InitTk == CodecIdle /\ AeadIdle /\ OpenIdle /\ PollIdle /\ WsIdle /\ WasmInit /\ PackIdle /\ KeyIdle /\ FinIdle /\ ReinitIdle /\ FillIdle /\ LenIdle /\ ReqIdle /\ TkInit /\ OrdIdle

SpecTk == InitTk /\ [][TkNext]_vars

InitOrd == CodecIdle /\ AeadIdle /\ OpenIdle /\ PollIdle /\ WsIdle /\ WasmInit /\ PackIdle /\ KeyIdle /\ FinIdle /\ ReinitIdle /\ FillIdle /\ LenIdle /\ ReqIdle /\ TkIdle /\ OrdInit

SpecOrd == InitOrd /\ [][OrdNext]_vars

====
